---- MODULE Spec2Model ----
(***************************************************************************)
(* Texture-to-3MF conversion pipeline: colour table, triangle budget       *)
(* (simplification / subdivision), median-cut quantization, nearest-colour *)
(* assignment, segmentation by colour, 3MF packaging and validation.       *)
(*                                                                         *)
(* Arrays are 1-based sequences here; every index VALUE the program        *)
(* stores (palette index, vertex index, triangle index) keeps its 0-based  *)
(* value, so element i of a JavaScript array a is a[i + 1].                *)
(***************************************************************************)
EXTENDS Integers, Sequences, FiniteSets, TLC

(***************************************************************************)
(* Bounds of the model.                                                    *)
(***************************************************************************)
\* largest number of faces over all sources of one run
MaxTris == 4
\* largest number of sources of one run
MaxSources == 2
\* largest palette size requested
MaxK == 2
\* largest number of faces of a run that subdivides more than once
MaxDeepTris == 1
\* TRIANGLE_LIMITS.MAX (500000 in the program), scaled to the model
TRIANGLE_LIMITS_MAX == 2
\* MAX_QUANTIZATION_SAMPLES (50000 in the program), scaled to the model
MAX_QUANTIZATION_SAMPLES == 2

(***************************************************************************)
(* Program constants.                                                      *)
(***************************************************************************)
\* SUBDIVISION_ITERATIONS: none 0, low 1, medium 2, high 3
SUBDIVISION_ITERATIONS == [none |-> 0, low |-> 1, medium |-> 2, high |-> 3]
SubdivisionLevel == {"none", "low", "medium", "high"}

\* the observed colours of the model's inputs
Red == <<255, 0, 0>>
Blue == <<0, 0, 255>>
InputColors == {Red, Blue}

\* half of the edge length of an input triangle: three midpoint insertions
\* stay on the integer grid
GridUnit == 2 * 2 * 2

(***************************************************************************)
(* Small helpers.                                                          *)
(***************************************************************************)
Min(a, b) == IF a <= b THEN a ELSE b
Max(a, b) == IF a >= b THEN a ELSE b

RECURSIVE Pow4(_)
Pow4(l) == IF l = 0 THEN 1 ELSE 4 * Pow4(l - 1)

RECURSIVE SeqsUpTo(_, _)
SeqsUpTo(S, n) ==
  IF n = 0 THEN {<<>>}
  ELSE LET shorter == SeqsUpTo(S, n - 1)
       IN shorter \cup {Append(s, x) : s \in {t \in shorter : Len(t) = n - 1}, x \in S}

\* the concatenation of chunks that all have k elements
Flatten(chunks, k) ==
  LET n == Len(chunks) * k
  IN SubSeq([i \in 1..n |-> chunks[((i - 1) \div k) + 1][((i - 1) % k) + 1]], 1, n)

\* the concatenation of the sequences of a sequence
RECURSIVE ConcatAll(_)
ConcatAll(chunks) ==
  IF chunks = <<>> THEN <<>> ELSE Head(chunks) \o ConcatAll(Tail(chunks))

RECURSIVE SumSeq(_)
SumSeq(s) == IF s = <<>> THEN 0 ELSE Head(s) + SumSeq(Tail(s))

\* the elements of a set of integers in ascending order
RECURSIVE Ascending(_)
Ascending(S) ==
  IF S = {} THEN <<>>
  ELSE LET m == CHOOSE x \in S : \A y \in S : x <= y
       IN <<m>> \o Ascending(S \ {m})

(***************************************************************************)
(* colorQuantization.ts                                                    *)
(***************************************************************************)
Chan(c, ch) == IF ch = "r" THEN c[1] ELSE IF ch = "g" THEN c[2] ELSE c[3]

RECURSIVE ChanMin(_, _, _)
ChanMin(colors, ch, acc) ==
  IF colors = <<>> THEN acc
  ELSE ChanMin(Tail(colors), ch, Min(acc, Chan(Head(colors), ch)))

RECURSIVE ChanMax(_, _, _)
ChanMax(colors, ch, acc) ==
  IF colors = <<>> THEN acc
  ELSE ChanMax(Tail(colors), ch, Max(acc, Chan(Head(colors), ch)))

getColorRange(colors) ==
  LET rRange == ChanMax(colors, "r", 0) - ChanMin(colors, "r", 255)
      gRange == ChanMax(colors, "g", 0) - ChanMin(colors, "g", 255)
      bRange == ChanMax(colors, "b", 0) - ChanMin(colors, "b", 255)
  IN IF rRange >= gRange /\ rRange >= bRange THEN [channel |-> "r", range |-> rRange]
     ELSE IF gRange >= rRange /\ gRange >= bRange THEN [channel |-> "g", range |-> gRange]
     ELSE [channel |-> "b", range |-> bRange]

\* Math.round(sum / n) for sum >= 0, n > 0: halves round up
RoundDiv(sum, n) == (2 * sum + n) \div (2 * n)

averageColor(colors) ==
  IF Len(colors) = 0 THEN <<0, 0, 0>>
  ELSE <<RoundDiv(SumSeq([i \in 1..Len(colors) |-> colors[i][1]]), Len(colors)),
         RoundDiv(SumSeq([i \in 1..Len(colors) |-> colors[i][2]]), Len(colors)),
         RoundDiv(SumSeq([i \in 1..Len(colors) |-> colors[i][3]]), Len(colors))>>

\* Array.prototype.sort((a, b) => a[ch] - b[ch]): a stable sort
RECURSIVE InsertStable(_, _, _)
InsertStable(sorted, c, ch) ==
  IF sorted = <<>> THEN <<c>>
  ELSE IF Chan(sorted[Len(sorted)], ch) <= Chan(c, ch) THEN Append(sorted, c)
  ELSE Append(InsertStable(SubSeq(sorted, 1, Len(sorted) - 1), c, ch), sorted[Len(sorted)])

RECURSIVE SortByChannel(_, _)
SortByChannel(colors, ch) ==
  IF colors = <<>> THEN <<>>
  ELSE InsertStable(SortByChannel(SubSeq(colors, 1, Len(colors) - 1), ch),
                    colors[Len(colors)], ch)

\* variant: a scan that looks at the first bucket only
FindSplit_FirstBucket(buckets, i, best) ==
  IF Len(buckets) = 0 \/ Len(buckets[1]) < 2 \/ getColorRange(buckets[1]).range = 0
  THEN best
  ELSE [idx |-> 0, range |-> getColorRange(buckets[1]).range,
        channel |-> getColorRange(buckets[1]).channel]

\* the scan of medianCut for the bucket to split: [idx (0-based), range, channel]
RECURSIVE FindSplit(_, _, _)
FindSplit(buckets, i, best) ==
  IF i > Len(buckets) THEN best
  ELSE IF Len(buckets[i]) < 2 THEN FindSplit(buckets, i + 1, best)
  ELSE LET cr == getColorRange(buckets[i])
       IN IF cr.range > best.range
          THEN FindSplit(buckets, i + 1, [idx |-> i - 1, range |-> cr.range, channel |-> cr.channel])
          ELSE FindSplit(buckets, i + 1, best)

NoSplit == [idx |-> 0, range |-> 0, channel |-> "r"]

\* variant: the cut is at Math.ceil(length / 2)
SplitSorted_CeilMid(sorted) ==
  <<SubSeq(sorted, 1, (Len(sorted) + 1) \div 2),
    SubSeq(sorted, ((Len(sorted) + 1) \div 2) + 1, Len(sorted))>>

\* variant: the second slice starts one element late
SplitSorted_DropMedian(sorted) ==
  <<SubSeq(sorted, 1, Len(sorted) \div 2),
    SubSeq(sorted, (Len(sorted) \div 2) + 2, Len(sorted))>>

\* bucketToSplit.slice(0, mid) and bucketToSplit.slice(mid)
SplitSorted(sorted) ==
  LET mid == Len(sorted) \div 2
  IN <<SubSeq(sorted, 1, mid), SubSeq(sorted, mid + 1, Len(sorted))>>

\* the while loop of medianCut over the bucket list
RECURSIVE MedianCutLoop(_, _)
MedianCutLoop(buckets, numColors) ==
  IF Len(buckets) >= numColors THEN buckets
  ELSE LET s == FindSplit(buckets, 1, NoSplit)
       IN IF s.range = 0 THEN buckets
          ELSE LET sorted == SortByChannel(buckets[s.idx + 1], s.channel)
                   next == SubSeq(buckets, 1, s.idx) \o SplitSorted(sorted)
                             \o SubSeq(buckets, s.idx + 2, Len(buckets))
               IN MedianCutLoop(next, numColors)

\* variant: the loop runs while buckets.length <= numColors
medianCut_OneSplitMore(colors, numColors) ==
  IF Len(colors) = 0 THEN <<>>
  ELSE IF numColors <= 1 THEN <<averageColor(colors)>>
  ELSE [i \in 1..Len(MedianCutLoop(<<colors>>, numColors + 1)) |->
          averageColor(MedianCutLoop(<<colors>>, numColors + 1)[i])]

medianCut(colors, numColors) ==
  IF Len(colors) = 0 THEN <<>>
  ELSE IF numColors <= 1 THEN <<averageColor(colors)>>
  ELSE LET buckets == MedianCutLoop(<<colors>>, numColors)
       IN [i \in 1..Len(buckets) |-> averageColor(buckets[i])]

\* The array passed to medianCut after the call.  The first bucket IS the
\* caller's array (buckets = [colors]), so the first split sorts the caller's
\* array in place; later splits sort slices, which are fresh arrays.
medianCutInputAfter(colors, numColors) ==
  IF Len(colors) = 0 \/ numColors <= 1 THEN colors
  ELSE LET s == FindSplit(<<colors>>, 1, NoSplit)
       IN IF s.range = 0 THEN colors ELSE SortByChannel(colors, s.channel)

SqDist(a, b) ==
  (a[1] - b[1]) * (a[1] - b[1]) + (a[2] - b[2]) * (a[2] - b[2])
    + (a[3] - b[3]) * (a[3] - b[3])

\* linear scan with a strict "<": [dist (-1 stands for Infinity), idx (0-based)]
RECURSIVE NearestScan(_, _, _, _)
NearestScan(color, pal, i, best) ==
  IF i > Len(pal) THEN best.idx
  ELSE LET dist == SqDist(color, pal[i])
       IN IF best.dist = -1 \/ dist < best.dist
          THEN NearestScan(color, pal, i + 1, [dist |-> dist, idx |-> i - 1])
          ELSE NearestScan(color, pal, i + 1, best)

\* variant: the scan compares with "<=" and keeps the last minimum
findNearestColor_LastFound(color, pal) ==
  IF Len(pal) = 0 THEN 0
  ELSE (CHOOSE i \in 1..Len(pal) :
          /\ \A j \in 1..Len(pal) : SqDist(color, pal[i]) <= SqDist(color, pal[j])
          /\ \A j \in (i + 1)..Len(pal) : SqDist(color, pal[i]) < SqDist(color, pal[j])) - 1

findNearestColor(color, pal) == NearestScan(color, pal, 1, [dist |-> -1, idx |-> 0])

(***************************************************************************)
(* Geometry (THREE.BufferGeometry): a position attribute, read three       *)
(* vertices per triangle, and an optional index list of 0-based vertex     *)
(* indices.  A vertex is a pair <<x, y>> on the integer grid.              *)
(***************************************************************************)
NoGeometry == [hasPosition |-> FALSE, position |-> <<>>, hasIndex |-> FALSE, index |-> <<>>]

\* meshSimplifier getTriangleCount
getTriangleCount(geometry) ==
  IF ~geometry.hasPosition THEN 0
  ELSE IF geometry.hasIndex THEN Len(geometry.index) \div 3
  ELSE Len(geometry.position) \div 3

\* the three corners of the t-th (0-based) triangle of the combined mesh
InputTriangle(t) ==
  <<<<2 * GridUnit * t, 0>>, <<2 * GridUnit * t + GridUnit, 0>>, <<2 * GridUnit * t, GridUnit>>>>

\* the input triangle in whose footprint a vertex lies
VertexOrigin(v) == v[1] \div (2 * GridUnit)

(***************************************************************************)
(* colorExtractor.ts                                                       *)
(***************************************************************************)
\* faces of one source: indexAttr ? indexAttr.count / 3 : posAttr ? posAttr.count / 3 : 0
meshFaceCount(source) ==
  IF source.hasIndex \/ source.hasPosition THEN Len(source.sampled) ELSE 0

\* one colour per face of every source, in source order
RECURSIVE extractColorsFromSources(_)
extractColorsFromSources(srcs) ==
  IF srcs = <<>> THEN <<>>
  ELSE SubSeq(Head(srcs).sampled, 1, meshFaceCount(Head(srcs)))
         \o extractColorsFromSources(Tail(srcs))

\* faces copied into the combined geometry: sources without positions are skipped
RECURSIVE CombinedFaceCount(_)
CombinedFaceCount(srcs) ==
  IF srcs = <<>> THEN 0
  ELSE (IF Head(srcs).hasPosition THEN meshFaceCount(Head(srcs)) ELSE 0)
         + CombinedFaceCount(Tail(srcs))

combineSourcesToGeometry(srcs) ==
  [hasPosition |-> TRUE,
   position |-> Flatten([t \in 1..CombinedFaceCount(srcs) |-> InputTriangle(t - 1)], 3),
   hasIndex |-> FALSE,
   index |-> <<>>]

(***************************************************************************)
(* meshSimplifier.ts: the decimation collaborator.  The answer of          *)
(* MeshoptSimplifier.simplify is an index list over the unchanged position *)
(* buffer; the model lets it keep any set of the input triangles.          *)
(***************************************************************************)
clampedTargetTriangles(geometry, targetTriangles) ==
  Max(1, Min(targetTriangles, Len(geometry.position) \div 3))

\* the answers the collaborator may give: sets of kept (0-based) triangles
SimplifyAnswers(geometry, targetTriangles) ==
  {S \in SUBSET (0..(Len(geometry.position) \div 3 - 1)) :
     Cardinality(S) <= clampedTargetTriangles(geometry, targetTriangles)}

simplifiedGeometry(geometry, kept) ==
  [hasPosition |-> TRUE,
   position |-> geometry.position,
   hasIndex |-> TRUE,
   index |-> Flatten([k \in 1..Cardinality(kept) |->
                        LET t == Ascending(kept)[k]
                        IN <<3 * t, 3 * t + 1, 3 * t + 2>>], 3)]

(***************************************************************************)
(* meshProcessor.ts                                                        *)
(***************************************************************************)
\* the stride loop that re-samples the colour table after simplification
RECURSIVE StrideSample(_, _, _, _)
StrideSample(colors, stride, limit, i) ==
  IF i < Len(colors) /\ limit > 0
  THEN <<colors[i + 1]>> \o StrideSample(colors, stride, limit - 1, i + stride)
  ELSE <<>>

\* lines 338-345; floor(n / 0) is Infinity in the program and the loop then
\* pushes nothing
resampleFaceColors(originalFaceColors, simplifiedFaceCount) ==
  IF simplifiedFaceCount < Len(originalFaceColors)
  THEN IF simplifiedFaceCount = 0 THEN <<>>
       ELSE StrideSample(originalFaceColors,
                         Max(1, Len(originalFaceColors) \div simplifiedFaceCount),
                         simplifiedFaceCount, 0)
  ELSE originalFaceColors

\* BufferGeometry.toNonIndexed
toNonIndexed(geometry) ==
  [hasPosition |-> geometry.hasPosition,
   position |-> [i \in 1..Len(geometry.index) |-> geometry.position[geometry.index[i] + 1]],
   hasIndex |-> FALSE,
   index |-> <<>>]

Midpoint(a, b) == <<(a[1] + b[1]) \div 2, (a[2] + b[2]) \div 2>>

\* the four triangles cut from one triangle
SplitTriangle(v0, v1, v2) ==
  LET m01 == Midpoint(v0, v1)
      m12 == Midpoint(v1, v2)
      m20 == Midpoint(v2, v0)
  IN <<v0, m01, m20, m01, v1, m12, m20, m12, v2, m01, m12, m20>>

\* one iteration of the subdivision loop
subdivideOnce(geometry) ==
  [hasPosition |-> TRUE,
   position |-> Flatten([i \in 1..(Len(geometry.position) \div 3) |->
                   SplitTriangle(geometry.position[3 * i - 2],
                                 geometry.position[3 * i - 1],
                                 geometry.position[3 * i])], 12),
   hasIndex |-> FALSE,
   index |-> <<>>]

RECURSIVE subdivideLoop(_, _)
subdivideLoop(geometry, iterations) ==
  IF iterations = 0 \/ ~geometry.hasPosition THEN geometry
  ELSE subdivideLoop(subdivideOnce(geometry), iterations - 1)

\* variant: a subdivision that runs one pass whatever the level
subdivideGeometryAsync_OnePass(geometry, iterations) ==
  IF iterations = 0 THEN geometry
  ELSE subdivideLoop(IF geometry.hasIndex THEN toNonIndexed(geometry) ELSE geometry, 1)

subdivideGeometryAsync(geometry, iterations) ==
  IF iterations = 0 THEN geometry
  ELSE subdivideLoop(IF geometry.hasIndex THEN toNonIndexed(geometry) ELSE geometry,
                     iterations)

RECURSIVE subdivideColors(_, _)
subdivideColors(colors, iterations) ==
  IF iterations = 0 THEN colors
  ELSE subdivideColors(
         Flatten([i \in 1..Len(colors) |-> <<colors[i], colors[i], colors[i], colors[i]>>], 4),
         iterations - 1)

\* variant: the list is handed over whole, whatever its length
colorsForQuantization_NoCap(subdivided) == subdivided

\* lines 373-382: the colours handed to medianCut
colorsForQuantization(subdivided) ==
  IF Len(subdivided) <= MAX_QUANTIZATION_SAMPLES THEN subdivided
  ELSE StrideSample(subdivided,
                    Max(1, Len(subdivided) \div MAX_QUANTIZATION_SAMPLES),
                    MAX_QUANTIZATION_SAMPLES, 0)

\* faceColorIndices[i] of the program; -1 stands for undefined (past the end)
IndexAt(indices, i) == IF i < Len(indices) THEN indices[i + 1] ELSE -1

\* palette[colorIndex] of the program; UndefinedColor outside the palette
UndefinedColor == <<-1, -1, -1>>
PaletteAt(pal, colorIndex) ==
  IF colorIndex \in 0..(Len(pal) - 1) THEN pal[colorIndex + 1] ELSE UndefinedColor

\* variant: a grouping whose loop stops one face short
colorGroups_DropLast(indices, totalFaces) ==
  LET faces == [i \in 1..(totalFaces - 1) |-> i - 1]
      IsFirst(i) == \A j \in 0..(i - 1) : IndexAt(indices, j) # IndexAt(indices, i)
      firsts == SelectSeq(faces, IsFirst)
  IN [g \in 1..Len(firsts) |->
        LET colorIdx == IndexAt(indices, firsts[g])
            HasColor(i) == IndexAt(indices, i) = colorIdx
        IN [colorIndex |-> colorIdx, faceIndices |-> SelectSeq(faces, HasColor)]]

\* the Map colorGroups of buildMeshesByColorAsync (lines 218-225): one entry
\* per distinct key, in the order the keys are first inserted, each holding
\* the faces with that key in ascending order
colorGroups(indices, totalFaces) ==
  LET faces == [i \in 1..totalFaces |-> i - 1]
      IsFirst(i) == \A j \in 0..(i - 1) : IndexAt(indices, j) # IndexAt(indices, i)
      firsts == SelectSeq(faces, IsFirst)
  IN [g \in 1..Len(firsts) |->
        LET colorIdx == IndexAt(indices, firsts[g])
            HasColor(i) == IndexAt(indices, i) = colorIdx
        IN [colorIndex |-> colorIdx, faceIndices |-> SelectSeq(faces, HasColor)]]

\* posAttr.getX(vertIdx): the position attribute read directly;
\* UndefinedVertex past the end of the buffer
UndefinedVertex == <<-1, -1>>
PositionAt(geometry, vertIdx) ==
  IF vertIdx < Len(geometry.position) THEN geometry.position[vertIdx + 1] ELSE UndefinedVertex

\* the meshes of buildMeshesByColorAsync, one per Map entry, in Map order
buildMeshes(geometry, indices, pal, totalFaces) ==
  LET groups == colorGroups(indices, totalFaces)
  IN [g \in 1..Len(groups) |->
        [colorIndex |-> groups[g].colorIndex,
         color |-> PaletteAt(pal, groups[g].colorIndex),
         faceIndices |-> groups[g].faceIndices,
         positions |-> Flatten([f \in 1..Len(groups[g].faceIndices) |->
                          [v \in 1..3 |->
                             PositionAt(geometry, groups[g].faceIndices[f] * 3 + v - 1)]], 3),
         faceCount |-> Len(groups[g].faceIndices)]]

\* colorStats.sort((a, b) => b.count - a.count): stable, descending by count
RECURSIVE InsertByCount(_, _)
InsertByCount(sorted, e) ==
  IF sorted = <<>> THEN <<e>>
  ELSE IF sorted[Len(sorted)].count >= e.count THEN Append(sorted, e)
  ELSE Append(InsertByCount(SubSeq(sorted, 1, Len(sorted) - 1), e), sorted[Len(sorted)])

RECURSIVE SortByCount(_)
SortByCount(stats) ==
  IF stats = <<>> THEN <<>>
  ELSE InsertByCount(SortByCount(SubSeq(stats, 1, Len(stats) - 1)), stats[Len(stats)])

buildColorStats(meshList, totalFaces) ==
  SortByCount([g \in 1..Len(meshList) |->
                 [color |-> meshList[g].color,
                  count |-> meshList[g].faceCount,
                  total |-> totalFaces]])

\* groupTrianglesByColor of the Bambu exporter: one group per distinct index,
\* keys sorted ascending, gray where the palette has no such entry
groupTrianglesByColor(indices, pal) ==
  LET faces == [i \in 1..Len(indices) |-> i - 1]
      sortedKeys == Ascending({indices[i] : i \in 1..Len(indices)})
  IN [g \in 1..Len(sortedKeys) |->
        LET HasColor(i) == indices[i + 1] = sortedKeys[g]
        IN [colorIndex |-> sortedKeys[g],
            triangleIndices |-> SelectSeq(faces, HasColor),
            color |-> IF PaletteAt(pal, sortedKeys[g]) = UndefinedColor
                      THEN <<128, 128, 128>>
                      ELSE PaletteAt(pal, sortedKeys[g])]]

(***************************************************************************)
(* export3MF: the package is a map from path to document.  A document is   *)
(* kept by what the program reads back from it or writes into it:          *)
(*   nonEmpty    the text is not ''                                        *)
(*   targets     Target paths of its <Relationship> elements               *)
(*   components  p:path values of its <component> elements                 *)
(*   objects     its <object> elements holding a mesh, in document order   *)
(*   buildItems  objectid of its <item> elements, in document order        *)
(*   basematerials  its <base> elements, in document order; the builders   *)
(*               of the mode-driven exporters write none                   *)
(*   configObjects  the <object> elements of a model config document: id   *)
(*               and the value of the 'extruder' metadata                  *)
(***************************************************************************)
ExportMode == {"mmu_segmentation", "paint_color", "multi_volume"}

Doc(nonEmpty, targets, components, objects, buildItems) ==
  [nonEmpty |-> nonEmpty, targets |-> targets, components |-> components,
   objects |-> objects, buildItems |-> buildItems, basematerials |-> <<>>,
   configObjects |-> <<>>, date |-> 0]

\* a document of plain text (config, report, content types)
TextDoc == Doc(TRUE, {}, {}, <<>>, <<>>)
\* the document '' the builders return for a geometry without positions
EmptyDoc == Doc(FALSE, {}, {}, <<>>, <<>>)

\* paths of the package written by export3MF of part_003; baseName is 'model'
objectPath == "3D/Objects/model.model"
relsPath == "3D/_rels/3dmodel.model.rels"
wrapperPath == "3D/3dmodel.model"
objectTarget == "/3D/Objects/model.model"

HexDigits == <<"0", "1", "2", "3", "4", "5", "6", "7", "8", "9", "A", "B", "C", "D", "E", "F">>

\* Number.prototype.toString(16).toUpperCase(), as the sequence of its digits
RECURSIVE ToHexUpper(_)
ToHexUpper(n) ==
  IF n < 16 THEN <<HexDigits[n + 1]>>
  ELSE Append(ToHexUpper(n \div 16), HexDigits[(n % 16) + 1])

encodePaintColor(colorIndex) == ToHexUpper((colorIndex + 1) * 4)

\* faceColorIndices[i] ?? 0
IndexOrZero(indices, i) == IF i < Len(indices) THEN indices[i + 1] ELSE 0

\* variant: a vertex map that numbers the vertices from 1
dedupVertices_OneBased(positions) ==
  LET IsFirst(i) == \A j \in 1..(i - 1) : positions[j] # positions[i]
      firsts == SelectSeq([i \in 1..Len(positions) |-> i], IsFirst)
      vertices == SubSeq([k \in 1..Len(firsts) |-> positions[firsts[k]]], 1, Len(firsts))
  IN [vertices |-> vertices,
      indices |-> SubSeq([i \in 1..Len(positions) |->
                            CHOOSE k \in 1..Len(vertices) : vertices[k] = positions[i]],
                         1, Len(positions))]

\* the vertexMap of the builders: each distinct coordinate key once, in the
\* order it is first met, and for every input vertex the index of its key
dedupVertices(positions) ==
  LET places == [i \in 1..Len(positions) |-> i]
      IsFirst(i) == \A j \in 1..(i - 1) : positions[j] # positions[i]
      firsts == SelectSeq(places, IsFirst)
      vertices == SubSeq([k \in 1..Len(firsts) |-> positions[firsts[k]]], 1, Len(firsts))
  IN [vertices |-> vertices,
      indices |-> SubSeq([i \in 1..Len(positions) |->
                            (CHOOSE k \in 1..Len(vertices) : vertices[k] = positions[i]) - 1],
                         1, Len(positions))]

\* the <triangle> elements over deduplicated vertices; paints[i] is the
\* paint_color attribute of the i-th triangle, <<>> when it has none
meshTriangles(positions, paints) ==
  LET d == dedupVertices(positions)
  IN [i \in 1..(Len(positions) \div 3) |->
        [v1 |-> d.indices[3 * i - 2], v2 |-> d.indices[3 * i - 1], v3 |-> d.indices[3 * i],
         paint_color |-> paints[i]]]

\* buildObjectModel (part_003) and buildModelWithPaintColor (export3MF.ts)
buildObjectModel(geometry, indices) ==
  IF ~geometry.hasPosition THEN EmptyDoc
  ELSE LET triCount == Len(geometry.position) \div 3
           used == SubSeq(geometry.position, 1, 3 * triCount)
           paints == [i \in 1..triCount |-> encodePaintColor(IndexOrZero(indices, i - 1))]
       IN Doc(TRUE, {}, {},
              <<[id |-> 1, colorIndex |-> -1,
                 vertices |-> dedupVertices(used).vertices,
                 triangles |-> meshTriangles(used, paints)]>>,
              <<1>>)

\* the Map trianglesByColor of buildModelWithMultiVolume: keys in the order
\* they are first inserted
trianglesByColor(geometry, indices) ==
  LET triCount == Len(geometry.position) \div 3
      faces == [i \in 1..triCount |-> i - 1]
      IsFirst(i) == \A j \in 0..(i - 1) : IndexOrZero(indices, j) # IndexOrZero(indices, i)
      firsts == SelectSeq(faces, IsFirst)
  IN [g \in 1..Len(firsts) |->
        LET colorIdx == IndexOrZero(indices, firsts[g])
            HasColor(i) == IndexOrZero(indices, i) = colorIdx
            members == SelectSeq(faces, HasColor)
        IN [colorIdx |-> colorIdx,
            positions |-> Flatten([f \in 1..Len(members) |->
                             [v \in 1..3 |-> geometry.position[members[f] * 3 + v]]], 3)]]

\* buildModelWithMultiVolume: one object and one build item per Map entry
buildModelWithMultiVolume(geometry, indices) ==
  IF ~geometry.hasPosition THEN EmptyDoc
  ELSE LET groups == trianglesByColor(geometry, indices)
       IN Doc(TRUE, {}, {},
              [g \in 1..Len(groups) |->
                 [id |-> g, colorIndex |-> groups[g].colorIdx,
                  vertices |-> dedupVertices(groups[g].positions).vertices,
                  triangles |-> meshTriangles(groups[g].positions,
                                [i \in 1..(Len(groups[g].positions) \div 3) |-> <<>>])]],
              [g \in 1..Len(groups) |-> g])

\* rgbToHex(palette[colorIdx]) throws a TypeError for a colour index outside
\* the palette; buildModelWithMultiVolume calls it for every Map key
multiVolumeThrows(geometry, indices, pal) ==
  /\ geometry.hasPosition
  /\ \E g \in 1..Len(trianglesByColor(geometry, indices)) :
       PaletteAt(pal, trianglesByColor(geometry, indices)[g].colorIdx) = UndefinedColor

\* buildWrapperModel
buildWrapperModel == Doc(TRUE, {}, {objectTarget}, <<>>, <<1>>)

\* number of matches of /paint_color="/g in a document
paintColorCount(doc) ==
  LET tagged(o) == LET HasPaint(t) == t.paint_color # <<>>
                   IN Len(SelectSeq(doc.objects[o].triangles, HasPaint))
  IN SumSeq([o \in 1..Len(doc.objects) |-> tagged(o)])

ErrObjectMissing == "ERRO: 3D/Objects/model.model nao existe no ZIP"
ErrRelsMissing == "ERRO: 3D/_rels/3dmodel.model.rels nao existe no ZIP"
ErrWrapperMissing == "ERRO: 3D/3dmodel.model nao existe no ZIP"
ErrRelsTarget == "ERRO: .rels Target nao aponta para /3D/Objects/model.model"
ErrWrapperPath == "ERRO: Wrapper p:path nao aponta para /3D/Objects/model.model"
ErrNoPaintColor == "ERRO: 3D/Objects/model.model nao contem nenhum paint_color"

\* validate3MFStructure (part_003 lines 204-262): the six checks in order
validate3MFStructure(package) ==
  LET has(path) == path \in DOMAIN package
      check1 == IF ~has(objectPath) THEN <<ErrObjectMissing>> ELSE <<>>
      check2 == IF ~has(relsPath) THEN <<ErrRelsMissing>> ELSE <<>>
      check3 == IF ~has(wrapperPath) THEN <<ErrWrapperMissing>> ELSE <<>>
      check4 == IF has(relsPath) /\ objectTarget \notin package[relsPath].targets
                THEN <<ErrRelsTarget>> ELSE <<>>
      check5 == IF has(wrapperPath) /\ objectTarget \notin package[wrapperPath].components
                THEN <<ErrWrapperPath>> ELSE <<>>
      check6 == IF has(objectPath) /\ paintColorCount(package[objectPath]) = 0
                THEN <<ErrNoPaintColor>> ELSE <<>>
      errors == check1 \o check2 \o check3 \o check4 \o check5 \o check6
  IN [valid |-> Len(errors) = 0, errors |-> errors, warnings |-> <<>>, ran |-> TRUE]

\* the color distribution of the report: one entry per palette index in
\* use, ascending by index (lines 284-295)
colorDistribution(indices, pal) ==
  LET used == Ascending({indices[i] : i \in 1..Len(indices)})
  IN [k \in 1..Len(used) |->
        LET HasColor(x) == x = used[k]
        IN [colorIndex |-> used[k],
            color |-> PaletteAt(pal, used[k]),
            count |-> Len(SelectSeq(indices, HasColor)),
            total |-> Len(indices)]]

buildReport(mode, geometry, indices, pal, result) ==
  [mode |-> mode,
   totalTriangles |-> Len(indices),
   totalVertices |-> IF geometry.hasPosition THEN Len(geometry.position) ELSE 0,
   palette |-> pal,
   colorDistribution |-> colorDistribution(indices, pal),
   validation |-> result]

modelConfigPath == "Metadata/Slic3r_PE_model.config"

\* Metadata/Slic3r_PE_model.config: buildMultiVolumeModelConfig(palette) in
\* mode multi_volume, one object per palette entry; buildSlicerModelConfig
\* otherwise, the one object with extruder 1
buildModelConfig(mode, pal) ==
  [Doc(TRUE, {}, {}, <<>>, <<>>) EXCEPT !.configObjects =
     IF mode = "multi_volume"
     THEN [idx \in 1..Len(pal) |-> [id |-> idx, extruder |-> idx]]
     ELSE <<[id |-> 1, extruder |-> 1]>>]

\* the entries export3MF of part_003 puts into the ZIP before validating
packageValidating(mode, geometry, indices, pal) ==
  LET content(path) ==
        IF path = relsPath THEN Doc(TRUE, {objectTarget}, {}, <<>>, <<>>)
        ELSE IF path = "_rels/.rels" THEN Doc(TRUE, {"/3D/3dmodel.model"}, {}, <<>>, <<>>)
        ELSE IF path = wrapperPath THEN buildWrapperModel
        ELSE IF path = objectPath
             THEN IF mode = "multi_volume"
                  THEN buildModelWithMultiVolume(geometry, indices)
                  ELSE buildObjectModel(geometry, indices)
        ELSE IF path = modelConfigPath THEN buildModelConfig(mode, pal)
        ELSE TextDoc
  IN [path \in {"[Content_Types].xml", "_rels/.rels", relsPath, wrapperPath, objectPath,
                "Metadata/Slic3r_PE.config", "Metadata/model_settings.config",
                "Metadata/project_settings.config", "Metadata/slice_info.config",
                modelConfigPath} |-> content(path)]

\* the entries export3MF of export3MF.ts puts into the ZIP
packageDirect(mode, geometry, indices, pal) ==
  LET content(path) ==
        IF path = "_rels/.rels" THEN Doc(TRUE, {"/3D/3dmodel.model"}, {}, <<>>, <<>>)
        ELSE IF path = wrapperPath
             THEN IF mode = "multi_volume"
                  THEN buildModelWithMultiVolume(geometry, indices)
                  ELSE buildObjectModel(geometry, indices)
        ELSE IF path = modelConfigPath THEN buildModelConfig(mode, pal)
        ELSE TextDoc
  IN [path \in {"[Content_Types].xml", "_rels/.rels", wrapperPath,
                "Metadata/Slic3r_PE.config", modelConfigPath,
                "Metadata/3DTextureConverter_report.txt"} |-> content(path)]

\* rgbToHex(color).toUpperCase(): '#' and two digits per channel
rgbToHex(color) ==
  LET pad(n) == IF n < 16 THEN <<"0">> \o ToHexUpper(n) ELSE ToHexUpper(n)
  IN <<"#">> \o pad(color[1]) \o pad(color[2]) \o pad(color[3])

\* materialsXml of the mesh-list exporter: one <base> per mesh, in mesh order
materialsXml(meshList) ==
  [idx \in 1..Len(meshList) |->
     [name |-> <<"Color_", idx>>,
      displaycolor |-> rgbToHex(meshList[idx].color) \o <<"F", "F">>]]

\* buildMeshData: the triangles of every mesh over one shared vertex map,
\* each carrying the position of its mesh in the list
buildMeshData(meshList) ==
  LET all == ConcatAll([m \in 1..Len(meshList) |-> meshList[m].positions])
      owner == ConcatAll([m \in 1..Len(meshList) |->
                            [f \in 1..(Len(meshList[m].positions) \div 3) |-> m - 1]])
      d == dedupVertices(all)
  IN [vertices |-> d.vertices,
      triangles |-> [i \in 1..(Len(all) \div 3) |->
                       [v1 |-> d.indices[3 * i - 2], v2 |-> d.indices[3 * i - 1],
                        v3 |-> d.indices[3 * i], paint_color |-> <<>>,
                        p1 |-> owner[i]]]]

\* the model document of export3MF(meshes, filename): basematerials id 1 and
\* the single object id 2
buildMeshListModel(meshList) ==
  [Doc(TRUE, {}, {},
       <<[id |-> 2, colorIndex |-> -1,
          vertices |-> buildMeshData(meshList).vertices,
          triangles |-> buildMeshData(meshList).triangles]>>,
       <<2>>)
   EXCEPT !.basematerials = materialsXml(meshList)]

\* the entries export3MF(meshes, filename) puts into the ZIP
packageMeshList(meshList) ==
  [path \in {"[Content_Types].xml", "_rels/.rels", wrapperPath} |->
     IF path = "_rels/.rels" THEN Doc(TRUE, {"/3D/3dmodel.model"}, {}, <<>>, <<>>)
     ELSE IF path = wrapperPath THEN buildMeshListModel(meshList)
     ELSE TextDoc]

\* the report file added to the ZIP after a passed validation (line 425)
withReport(package) ==
  [path \in DOMAIN package \cup {"Metadata/3DTextureConverter_report.txt"} |->
     IF path \in DOMAIN package THEN package[path] ELSE TextDoc]

\* the text of the report: its line 'Date: ${new Date().toISOString()}'
\* (export3MF.ts line 158, part_003 line 716); the other lines are written
\* from the report record
buildDiagnosticReport(date) == [TextDoc EXCEPT !.date = date]

\* what export3MF hands to its caller
Thrown(message) == [outcome |-> "thrown", message |-> message, blob |-> [none |-> TRUE]]
Returned(package, report) ==
  [outcome |-> "returned", message |-> <<>>, blob |-> package, report |-> report]

\* the returned package with the report text of an export at the given time
reportWrittenAt(result, date) ==
  IF result.outcome = "returned"
       /\ "Metadata/3DTextureConverter_report.txt" \in DOMAIN result.blob
  THEN [result EXCEPT
          !.blob = [@ EXCEPT !["Metadata/3DTextureConverter_report.txt"] =
                               buildDiagnosticReport(date)]]
  ELSE result

\* variant: an exporter that returns the package whatever the validator said
afterValidation_FailOpen(package, result, report) ==
  Returned(withReport(package), report)

\* part_003 lines 374-429: fail closed on an invalid package
afterValidation(package, result, report) ==
  IF ~result.valid
  THEN Thrown(<<"3MF Validation Failed:">> \o result.errors)
  ELSE Returned(withReport(package), report)

(***************************************************************************)
(* State of one conversion run.                                            *)
(***************************************************************************)
VARIABLES
  sources,                 \* input: the MeshSource list
  subdivisionLevel,        \* input: 'none' | 'low' | 'medium' | 'high'
  numColors,               \* input: requested palette size K
  pc,                      \* position of the run
  originalFaceColors,      \* result of extractColorsFromSources
  textureCache,            \* TextureCache.cache: texture uuid -> ImageData or null
  textureLoads,            \* history: uuid of every texture loadTextureData was called with
  combinedGeometry,
  originalTriangles,
  simplifyCalls,           \* invocations of the decimation collaborator
  baseGeometry,
  baseFaceColors,
  baseIsOriginal,          \* baseFaceColors is the array originalFaceColors
  subdividedGeometry,
  processedTriangles,
  subdividedFaceColors,
  tableBeforeQuantization, \* history: subdividedFaceColors when step 6 starts
  quantizationSamples,     \* history: the list medianCut was called with
  palette,
  faceColorIndices,
  meshes,
  colorStats,
  failure,                 \* message of the error the run rejected with
  exportMode,
  exporter,                \* which export3MF the host calls
  zip,                     \* the package under construction
  validation,              \* result of validate3MFStructure
  exportResult,            \* what export3MF handed to its caller
  otherRun                 \* of two runs, the one that is not executing: its locals
                           \* while it waits at an await, its outputs once it is over

inputVars == <<sources, subdivisionLevel, numColors>>
sampleVars == <<originalFaceColors, textureCache, textureLoads>>
budgetVars == <<combinedGeometry, originalTriangles, simplifyCalls, baseGeometry,
                baseFaceColors, baseIsOriginal>>
subdivideVars == <<subdividedGeometry, processedTriangles, subdividedFaceColors>>
quantizeVars == <<tableBeforeQuantization, quantizationSamples, palette, faceColorIndices>>
segmentVars == <<meshes, colorStats>>
exportVars == <<exportMode, exporter, zip, validation, exportResult>>
vars == <<inputVars, pc, sampleVars, budgetVars, subdivideVars, quantizeVars,
          segmentVars, failure, exportVars, otherRun>>

iterations == SUBDIVISION_ITERATIONS[subdivisionLevel]

(***************************************************************************)
(* Inputs.                                                                 *)
(***************************************************************************)
\* a source: which buffers its geometry has, and the colour the sampler
\* derives for each of its faces.  A geometry with positions is taken
\* without an index; one with neither buffer has no face.
SourceSet ==
  {src \in [hasPosition : BOOLEAN, hasIndex : BOOLEAN,
            sampled : SeqsUpTo(InputColors, MaxTris)] :
     /\ (~src.hasPosition /\ ~src.hasIndex) => src.sampled = <<>>
     /\ ~(src.hasPosition /\ src.hasIndex)}

\* the source lists of at most n sources with at most faces faces in all
RECURSIVE SourceLists(_, _)
SourceLists(n, faces) ==
  IF n = 0 THEN {<<>>}
  ELSE {<<>>} \cup
       UNION {{<<src>> \o rest : rest \in SourceLists(n - 1, faces - meshFaceCount(src))} :
                src \in {x \in SourceSet : meshFaceCount(x) <= faces}}

RECURSIVE TotalFaces(_)
TotalFaces(srcs) ==
  IF srcs = <<>> THEN 0 ELSE meshFaceCount(Head(srcs)) + TotalFaces(Tail(srcs))

\* the length of the colour table after the simplification step, at most
BudgetFaces(srcs) ==
  IF CombinedFaceCount(srcs) > TRIANGLE_LIMITS_MAX
  THEN Max(TRIANGLE_LIMITS_MAX, TotalFaces(srcs) - CombinedFaceCount(srcs))
  ELSE TotalFaces(srcs)

NoPackage == [none |-> TRUE]
NoValidation == [valid |-> TRUE, errors |-> <<>>, warnings |-> <<>>, ran |-> FALSE]
NoExport == [outcome |-> "none", message |-> <<>>, blob |-> NoPackage]
\* no second run
NoRun == [run |-> 0]

RunInit ==
  /\ sources \in SourceLists(MaxSources, MaxTris)
  /\ subdivisionLevel \in SubdivisionLevel
  /\ numColors \in 1..MaxK
  /\ TotalFaces(sources) <= MaxTris
  /\ iterations > 1 => BudgetFaces(sources) <= MaxDeepTris
  /\ pc = "extract"
  /\ originalFaceColors = <<>>
  /\ textureCache = <<>>
  /\ textureLoads = <<>>
  /\ combinedGeometry = NoGeometry
  /\ originalTriangles = 0
  /\ simplifyCalls = 0
  /\ baseGeometry = NoGeometry
  /\ baseFaceColors = <<>>
  /\ baseIsOriginal = FALSE
  /\ subdividedGeometry = NoGeometry
  /\ processedTriangles = 0
  /\ subdividedFaceColors = <<>>
  /\ tableBeforeQuantization = <<>>
  /\ quantizationSamples = <<>>
  /\ palette = <<>>
  /\ faceColorIndices = <<>>
  /\ meshes = <<>>
  /\ colorStats = <<>>
  /\ failure = "none"
  /\ exportMode = "none"
  /\ exporter = "none"
  /\ zip = NoPackage
  /\ validation = NoValidation
  /\ exportResult = NoExport
  /\ otherRun = NoRun

Init == RunInit

(***************************************************************************)
(* processMeshAsync, one action per stretch between two awaits.            *)
(***************************************************************************)
\* step 1 (line 310): await extractColorsFromSources
ExtractColors ==
  /\ pc = "extract"
  /\ originalFaceColors' = extractColorsFromSources(sources)
  /\ pc' = "combine"
  /\ UNCHANGED <<inputVars, textureCache, textureLoads, budgetVars, subdivideVars, quantizeVars, segmentVars,
                 failure, exportVars>>
  /\ UNCHANGED otherRun

\* steps 2-3 (lines 319-326) when the mesh is within the ceiling.  The run
\* reads its sources here for the last time; the model forgets them.
CombineWithinLimit ==
  /\ pc = "combine"
  /\ LET combined == combineSourcesToGeometry(sources)
     IN /\ ~(getTriangleCount(combined) > TRIANGLE_LIMITS_MAX)
        /\ combinedGeometry' = combined
        /\ originalTriangles' = getTriangleCount(combined)
        /\ baseGeometry' = combined
        /\ baseFaceColors' = originalFaceColors
        /\ baseIsOriginal' = TRUE
  /\ sources' = <<>>
  /\ pc' = "subdivide"
  /\ UNCHANGED <<subdivisionLevel, numColors, sampleVars, simplifyCalls, subdivideVars,
                 quantizeVars, segmentVars, failure, exportVars>>
  /\ UNCHANGED otherRun

\* steps 2-3 (lines 319-333) when the mesh is over the ceiling: the run calls
\* simplifyGeometryAsync and waits for it
CallSimplifier ==
  /\ pc = "combine"
  /\ LET combined == combineSourcesToGeometry(sources)
     IN /\ getTriangleCount(combined) > TRIANGLE_LIMITS_MAX
        /\ combinedGeometry' = combined
        /\ originalTriangles' = getTriangleCount(combined)
        /\ baseGeometry' = combined
  /\ baseFaceColors' = originalFaceColors
  /\ baseIsOriginal' = TRUE
  /\ simplifyCalls' = simplifyCalls + 1
  /\ sources' = <<>>
  /\ pc' = "simplifying"
  /\ UNCHANGED <<subdivisionLevel, numColors, sampleVars, subdivideVars, quantizeVars,
                 segmentVars, failure, exportVars>>
  /\ UNCHANGED otherRun

\* the faceColors left by lines 334-345 for a simplified geometry
faceColorsAfterSimplify(faceColors, simplified) ==
  resampleFaceColors(faceColors, getTriangleCount(simplified))

\* simplifyGeometryAsync resolves (lines 334-353)
SimplifierReturns ==
  /\ pc = "simplifying"
  /\ \E kept \in SimplifyAnswers(combinedGeometry, TRIANGLE_LIMITS_MAX) :
       LET simplified == simplifiedGeometry(combinedGeometry, kept)
       IN /\ baseGeometry' = simplified
          /\ baseFaceColors' = faceColorsAfterSimplify(originalFaceColors, simplified)
          /\ baseIsOriginal' = ~(getTriangleCount(simplified) < Len(originalFaceColors))
  /\ pc' = "subdivide"
  /\ UNCHANGED <<inputVars, sampleVars, combinedGeometry, originalTriangles,
                 simplifyCalls, subdivideVars, quantizeVars, segmentVars, failure,
                 exportVars>>
  /\ UNCHANGED otherRun

\* variant: a run that swallows the rejection and goes on with the unsimplified mesh
onSimplifierError_Continue(reason) == [pc |-> "subdivide", failure |-> reason]

\* what processMeshAsync does when the awaited simplifyGeometryAsync rejects:
\* there is no try/catch, the rejection leaves the function
onSimplifierError(reason) == [pc |-> "failed", failure |-> reason]

\* MeshoptSimplifier.ready rejects, or MeshoptSimplifier.simplify throws
SimplifierFails ==
  /\ pc = "simplifying"
  /\ \E reason \in {"engine not ready", "engine threw"} :
       /\ pc' = onSimplifierError(reason).pc
       /\ failure' = onSimplifierError(reason).failure
  /\ UNCHANGED <<inputVars, sampleVars, budgetVars, subdivideVars, quantizeVars,
                 segmentVars, exportVars>>
  /\ UNCHANGED otherRun

\* steps 4-5 (lines 357-371)
Subdivide ==
  /\ pc = "subdivide"
  /\ LET subdivided == subdivideGeometryAsync(baseGeometry, iterations)
     IN /\ subdividedGeometry' = subdivided
        /\ processedTriangles' = getTriangleCount(subdivided)
  /\ subdividedFaceColors' = subdivideColors(baseFaceColors, iterations)
  /\ tableBeforeQuantization' = subdivideColors(baseFaceColors, iterations)
  /\ pc' = "quantize"
  /\ UNCHANGED <<inputVars, sampleVars, budgetVars, quantizationSamples, palette,
                 faceColorIndices,
                 segmentVars, failure, exportVars>>
  /\ UNCHANGED otherRun

\* step 6 (lines 373-392).  colorsForQuantization is the array
\* subdividedFaceColors itself when it is within the sample cap, and
\* subdivideColors returns its argument when iterations = 0, so the in-place
\* sort of medianCut reaches every variable that holds that array.
Quantize ==
  /\ pc = "quantize"
  /\ LET forQuantization == colorsForQuantization(subdividedFaceColors)
         sameArray == Len(subdividedFaceColors) <= MAX_QUANTIZATION_SAMPLES
         after == medianCutInputAfter(forQuantization, numColors)
     IN /\ palette' = medianCut(forQuantization, numColors)
        /\ quantizationSamples' = forQuantization
        /\ subdividedFaceColors' = IF sameArray THEN after ELSE subdividedFaceColors
        /\ baseFaceColors' = IF sameArray /\ iterations = 0 THEN after ELSE baseFaceColors
        /\ originalFaceColors' =
             IF sameArray /\ iterations = 0 /\ baseIsOriginal THEN after
             ELSE originalFaceColors
  /\ pc' = "assign"
  /\ UNCHANGED <<inputVars, textureCache, textureLoads, combinedGeometry, originalTriangles, simplifyCalls,
                 baseGeometry, baseIsOriginal, subdividedGeometry, processedTriangles,
                 tableBeforeQuantization, faceColorIndices, segmentVars, failure,
                 exportVars>>
  /\ UNCHANGED otherRun

\* step 7 (line 394)
Assign ==
  /\ pc = "assign"
  /\ faceColorIndices' =
       [i \in 1..Len(subdividedFaceColors) |->
          findNearestColor(subdividedFaceColors[i], palette)]
  /\ pc' = "build"
  /\ UNCHANGED <<inputVars, sampleVars, budgetVars, subdivideVars,
                 tableBeforeQuantization, quantizationSamples, palette, segmentVars,
                 failure, exportVars>>
  /\ UNCHANGED otherRun

\* step 8 (lines 397-418): buildMeshesByColorAsync and the return
BuildMeshes ==
  /\ pc = "build"
  /\ meshes' = buildMeshes(subdividedGeometry, faceColorIndices, palette, processedTriangles)
  /\ colorStats' =
       buildColorStats(
         buildMeshes(subdividedGeometry, faceColorIndices, palette, processedTriangles),
         processedTriangles)
  /\ pc' = "done"
  /\ UNCHANGED <<inputVars, sampleVars, budgetVars, subdivideVars, quantizeVars,
                 failure, exportVars>>
  /\ UNCHANGED otherRun

\* the ExportData record the host passes to export3MF
\* new Date() at an export: 1 at the export of a run, later by the time
\* that has passed at the export that repeats it
now == IF otherRun = NoRun THEN 1 ELSE 1 + otherRun.elapsed

\* an export that repeats another is called with the arguments of the first
sameRequest(which, mode) ==
  otherRun # NoRun => (otherRun.exporter = which /\ otherRun.exportMode = mode)

exportDataOf(geometry, indices, pal) ==
  [geometry |-> geometry, faceColorIndices |-> indices, palette |-> pal]

\* export3MF of part_003 (lines 268-429), called by the host on a finished run
ExportValidating ==
  /\ pc = "done"
  /\ \E mode \in ExportMode :
       LET data == exportDataOf(subdividedGeometry, faceColorIndices, palette)
           package == packageValidating(mode, data.geometry, data.faceColorIndices, data.palette)
           result == validate3MFStructure(package)
       IN /\ sameRequest("validating", mode)
          /\ exportMode' = mode
          /\ IF mode = "multi_volume"
                  /\ multiVolumeThrows(data.geometry, data.faceColorIndices, data.palette)
             THEN /\ zip' = NoPackage
                  /\ validation' = NoValidation
                  /\ exportResult' = Thrown(<<"TypeError">>)
             ELSE /\ zip' = package
                  /\ validation' = result
                  /\ exportResult' =
                       reportWrittenAt(
                         afterValidation(package, result,
                           buildReport(mode, data.geometry, data.faceColorIndices,
                                       data.palette, result)),
                         now)
  /\ exporter' = "validating"
  /\ pc' = "exported"
  /\ UNCHANGED <<inputVars, sampleVars, budgetVars, subdivideVars, quantizeVars,
                 segmentVars, failure>>
  /\ UNCHANGED otherRun

\* export3MF of export3MF.ts (lines 38-150), called by the host on a finished run
ExportDirect ==
  /\ pc = "done"
  /\ \E mode \in ExportMode :
       LET data == exportDataOf(subdividedGeometry, faceColorIndices, palette)
           package == packageDirect(mode, data.geometry, data.faceColorIndices, data.palette)
       IN /\ sameRequest("direct", mode)
          /\ exportMode' = mode
          /\ IF mode = "multi_volume"
                  /\ multiVolumeThrows(data.geometry, data.faceColorIndices, data.palette)
             THEN /\ zip' = NoPackage
                  /\ exportResult' = Thrown(<<"TypeError">>)
             ELSE /\ zip' = reportWrittenAt(Returned(package, <<>>), now).blob
                  /\ exportResult' =
                       reportWrittenAt(
                         Returned(package,
                           buildReport(mode, data.geometry, data.faceColorIndices,
                                       data.palette, NoValidation)),
                         now)
  /\ validation' = NoValidation
  /\ exporter' = "direct"
  /\ pc' = "exported"
  /\ UNCHANGED <<inputVars, sampleVars, budgetVars, subdivideVars, quantizeVars,
                 segmentVars, failure>>
  /\ UNCHANGED otherRun

\* export3MF(meshes, filename) of export3MF.ts (lines 502-573), called by the
\* host with the meshes of a finished run; rgbToHex throws a TypeError for a
\* mesh whose colour is undefined
ExportMeshList ==
  /\ pc = "done"
  /\ sameRequest("meshes", exportMode)
  /\ IF \E m \in 1..Len(meshes) : meshes[m].color = UndefinedColor
     THEN /\ zip' = NoPackage
          /\ exportResult' = Thrown(<<"TypeError">>)
     ELSE /\ zip' = packageMeshList(meshes)
          /\ exportResult' = Returned(packageMeshList(meshes), <<>>)
  /\ validation' = NoValidation
  /\ exporter' = "meshes"
  /\ pc' = "exported"
  /\ UNCHANGED <<inputVars, sampleVars, budgetVars, subdivideVars, quantizeVars,
                 segmentVars, failure, exportMode>>
  /\ UNCHANGED otherRun

Next ==
  \/ ExtractColors
  \/ CombineWithinLimit
  \/ CallSimplifier
  \/ SimplifierReturns
  \/ SimplifierFails
  \/ Subdivide
  \/ Quantize
  \/ Assign
  \/ BuildMeshes
  \/ ExportValidating
  \/ ExportDirect
  \/ ExportMeshList

Spec == Init /\ [][Next]_vars

(***************************************************************************)
(* The export of a finished run, and the same export once more: the host   *)
(* calls the export3MF it called before with the arguments it passed       *)
(* before, and otherRun keeps what the first call handed back.  The level  *)
(* of the run is 'none'.                                                   *)
(***************************************************************************)
TwoExportsInit ==
  /\ Init
  /\ subdivisionLevel = "none"

\* the host exports again, at once or after a while
ExportAgain ==
  /\ pc = "exported"
  /\ otherRun = NoRun
  /\ \E elapsed \in 0..1 :
       otherRun' = [run |-> 1, exporter |-> exporter, exportMode |-> exportMode,
                    exportResult |-> exportResult, elapsed |-> elapsed]
  /\ pc' = "done"
  /\ UNCHANGED <<inputVars, sampleVars, budgetVars, subdivideVars, quantizeVars,
                 segmentVars, failure, exportVars>>

SpecTwoExports == TwoExportsInit /\ [][Next \/ ExportAgain]_vars

(***************************************************************************)
(* extractColorsFromSources on its own (colorExtractor.ts): one source     *)
(* whose geometry is not indexed, seen with what the sampler reads of it.  *)
(*   hasColor   the geometry has a 'color' attribute; every face then has  *)
(*              the vertex colours VertexTriple                            *)
(*   hasUV      the geometry has a 'uv' attribute                          *)
(*   materials  the material list: color (UndefinedColor when the material *)
(*              has none) and map (NoMap when it has none)                 *)
(*   faces      per face the materialIndex of the group that holds it      *)
(* A texture is its uuid, the state of its image and the one pixel of its  *)
(* raster.  Colour channels of THREE.Color values are kept times 255.      *)
(***************************************************************************)
MaxSamplerFaces == 2
MaxMaterials == 2

NoMap == [uuid |-> 0, image |-> "none", texel |-> UndefinedColor]
TextureSet ==
  {[uuid |-> 1, image |-> "complete", texel |-> Blue],
   [uuid |-> 2, image |-> "incomplete", texel |-> Red],
   [uuid |-> 3, image |-> "undrawable", texel |-> Red]}
MaterialSet == [color : {UndefinedColor, <<255, 128, 0>>}, map : {NoMap} \cup TextureSet]
VertexTriple == <<Red, Blue, Blue>>

SamplerSourceSet ==
  [hasColor : BOOLEAN, hasUV : BOOLEAN,
   materials : SeqsUpTo(MaterialSet, MaxMaterials),
   faces : SeqsUpTo(0..(MaxMaterials - 1), MaxSamplerFaces) \ {<<>>}]

\* new THREE.Color of the mean of three vertex colours, then threeColorToRGB
vertexColorMean(triple) ==
  [c \in 1..3 |-> RoundDiv(triple[1][c] + triple[2][c] + triple[3][c], 3)]

multiplyColors(a, b) == [c \in 1..3 |-> RoundDiv(a[c] * b[c], 255)]

\* the gray of a face that no material covers (line 277)
NeutralGray == <<180, 180, 180>>

NoMaterial == [color |-> UndefinedColor, map |-> NoMap, missing |-> TRUE]

\* materials[materialIndex] || materials[0]
materialOf(source, faceIdx) ==
  LET materialIndex == source.faces[faceIdx + 1]
      at(i) == [color |-> source.materials[i + 1].color,
                map |-> source.materials[i + 1].map, missing |-> FALSE]
  IN IF materialIndex < Len(source.materials) THEN at(materialIndex)
     ELSE IF Len(source.materials) > 0 THEN at(0)
     ELSE NoMaterial

\* stdMat.color ? threeColorToRGB(stdMat.color) : { r: 200, g: 200, b: 200 }
baseColorOf(material) ==
  IF material.color # UndefinedColor THEN material.color ELSE <<200, 200, 200>>

\* the face reaches 'await textureCache.getImageData(stdMat.map)'
needsTexture(source, faceIdx) ==
  /\ ~source.hasColor
  /\ ~materialOf(source, faceIdx).missing
  /\ materialOf(source, faceIdx).map # NoMap
  /\ source.hasUV

\* variant: a sampler that never multiplies the texture in
faceColorOf_BaseOnly(source, faceIdx, imageData) ==
  IF source.hasColor THEN vertexColorMean(VertexTriple)
  ELSE IF materialOf(source, faceIdx).missing THEN NeutralGray
  ELSE baseColorOf(materialOf(source, faceIdx))

\* the colour of one face once the image data of its texture is settled;
\* imageData is FALSE for null
faceColorOf(source, faceIdx, imageData) ==
  LET material == materialOf(source, faceIdx)
  IN IF source.hasColor THEN vertexColorMean(VertexTriple)
     ELSE IF material.missing THEN NeutralGray
     ELSE IF needsTexture(source, faceIdx) /\ imageData
          THEN multiplyColors(material.map.texel, baseColorOf(material))
     ELSE baseColorOf(material)

\* variant: a cache that keeps decoded images only, not the null of a
\* failed decode
cacheSet_SkipNull(cache, key, imageData) ==
  IF imageData
  THEN [k \in DOMAIN cache \cup {key} |-> IF k = key THEN imageData ELSE cache[k]]
  ELSE cache

\* TextureCache.cache.set(key, imageData)
cacheSet(cache, key, imageData) ==
  [k \in DOMAIN cache \cup {key} |-> IF k = key THEN imageData ELSE cache[k]]

SamplerInit ==
  /\ sources \in {<<source>> : source \in SamplerSourceSet}
  /\ subdivisionLevel = "none"
  /\ numColors = 1
  /\ pc = "sample"
  /\ originalFaceColors = <<>>
  /\ textureCache = <<>>
  /\ textureLoads = <<>>
  /\ combinedGeometry = NoGeometry
  /\ originalTriangles = 0
  /\ simplifyCalls = 0
  /\ baseGeometry = NoGeometry
  /\ baseFaceColors = <<>>
  /\ baseIsOriginal = FALSE
  /\ subdividedGeometry = NoGeometry
  /\ processedTriangles = 0
  /\ subdividedFaceColors = <<>>
  /\ tableBeforeQuantization = <<>>
  /\ quantizationSamples = <<>>
  /\ palette = <<>>
  /\ faceColorIndices = <<>>
  /\ meshes = <<>>
  /\ colorStats = <<>>
  /\ failure = "none"
  /\ exportMode = "none"
  /\ exporter = "none"
  /\ zip = NoPackage
  /\ validation = NoValidation
  /\ exportResult = NoExport
  /\ otherRun = NoRun

samplerRest == <<inputVars, budgetVars, subdivideVars, quantizeVars, segmentVars, exportVars>>

\* one pass of the face loop (lines 202-293) that does not wait for an image:
\* a cache hit, a face without texture, or a texture whose image is complete
\* or cannot be drawn (loadTextureData returns without awaiting the image)
SampleFace ==
  /\ pc = "sample"
  /\ Len(originalFaceColors) < Len(sources[1].faces)
  /\ LET faceIdx == Len(originalFaceColors)
         texture == materialOf(sources[1], faceIdx).map
     IN IF ~needsTexture(sources[1], faceIdx)
        THEN /\ originalFaceColors' =
                  Append(originalFaceColors, faceColorOf(sources[1], faceIdx, FALSE))
             /\ UNCHANGED <<textureCache, textureLoads, pc>>
        ELSE IF texture.uuid \in DOMAIN textureCache
        THEN /\ originalFaceColors' =
                  Append(originalFaceColors,
                         faceColorOf(sources[1], faceIdx, textureCache[texture.uuid]))
             /\ UNCHANGED <<textureCache, textureLoads, pc>>
        ELSE IF texture.image = "incomplete"
        THEN /\ pc' = "loading"
             /\ textureLoads' = Append(textureLoads, texture.uuid)
             /\ UNCHANGED <<originalFaceColors, textureCache>>
        ELSE /\ textureCache' = cacheSet(textureCache, texture.uuid, texture.image = "complete")
             /\ textureLoads' = Append(textureLoads, texture.uuid)
             /\ originalFaceColors' =
                  Append(originalFaceColors,
                         faceColorOf(sources[1], faceIdx, texture.image = "complete"))
             /\ UNCHANGED pc
  /\ UNCHANGED <<samplerRest, failure>>
  /\ UNCHANGED otherRun

\* image.onload while loadTextureData awaits it (line 61): the image is
\* drawn, cached and sampled for the waiting face
ImageLoads ==
  /\ pc = "loading"
  /\ LET faceIdx == Len(originalFaceColors)
         texture == materialOf(sources[1], faceIdx).map
     IN /\ textureCache' = cacheSet(textureCache, texture.uuid, TRUE)
        /\ UNCHANGED textureLoads
        /\ originalFaceColors' =
             Append(originalFaceColors, faceColorOf(sources[1], faceIdx, TRUE))
  /\ pc' = "sample"
  /\ UNCHANGED <<samplerRest, failure>>
  /\ UNCHANGED otherRun

\* image.onerror while loadTextureData awaits it (line 62): the promise is
\* rejected outside the try of line 95, and neither getImageData nor
\* extractColorsFromSources nor processMeshAsync (line 310) catches it
ImageFails ==
  /\ pc = "loading"
  /\ pc' = "failed"
  /\ failure' = "Image failed to load"
  /\ UNCHANGED <<samplerRest, sampleVars>>
  /\ UNCHANGED otherRun

\* the loop is over: textureCache.dispose() and the return (lines 296-303)
SamplerReturns ==
  /\ pc = "sample"
  /\ Len(originalFaceColors) = Len(sources[1].faces)
  /\ textureCache' = <<>>
  /\ pc' = "sampled"
  /\ UNCHANGED <<samplerRest, originalFaceColors, textureLoads, failure>>
  /\ UNCHANGED otherRun

SamplerNext == SampleFace \/ ImageLoads \/ ImageFails \/ SamplerReturns

SpecSampler == SamplerInit /\ [][SamplerNext]_vars

(***************************************************************************)
(* Two runs of processMeshAsync on one thread.  The state variables hold   *)
(* the locals of the run that is executing, otherRun those of the run  *)
(* that waits at an await; the host resumes the waiting run at the yield   *)
(* points of the executing one (colorExtractor.ts lines 248 and 284,       *)
(* meshProcessor.ts lines 310, 371 and 392).  The mesh of a run is within  *)
(* the ceiling and its level is 'none'.  Each run converts a file of its   *)
(* own: the textures of run 2 are objects of their own, with the images of *)
(* TextureSet under uuids of their own.                                    *)
(***************************************************************************)
texturedMaterial(id, uuid) ==
  LET texture == CHOOSE t \in TextureSet : t.uuid = uuid
  IN [color |-> UndefinedColor,
      map |-> [texture EXCEPT !.uuid = uuid + (id - 1) * Cardinality(TextureSet)]]

TwoRunSources(id) ==
  {[hasColor |-> FALSE, hasUV |-> TRUE, materials |-> ms, faces |-> fs] :
     ms \in {<<texturedMaterial(id, 1), texturedMaterial(id, 2)>>,
             <<texturedMaterial(id, 3), texturedMaterial(id, 1)>>},
     fs \in [1..MaxSamplerFaces -> 0..1]}

\* the locals of a call of processMeshAsync and of the call of
\* extractColorsFromSources inside it, at their first statement
initialRun(id, source, k) ==
  [run |-> id, sources |-> <<source>>, numColors |-> k, pc |-> "sample",
   originalFaceColors |-> <<>>, textureCache |-> <<>>, textureLoads |-> <<>>,
   baseFaceColors |-> <<>>, baseIsOriginal |-> FALSE, subdividedFaceColors |-> <<>>,
   tableBeforeQuantization |-> <<>>, quantizationSamples |-> <<>>, palette |-> <<>>,
   faceColorIndices |-> <<>>, failure |-> "none"]

\* the locals of the executing run
runLocals(id) ==
  [run |-> id, sources |-> sources, numColors |-> numColors, pc |-> pc,
   originalFaceColors |-> originalFaceColors, textureCache |-> textureCache,
   textureLoads |-> textureLoads, baseFaceColors |-> baseFaceColors,
   baseIsOriginal |-> baseIsOriginal, subdividedFaceColors |-> subdividedFaceColors,
   tableBeforeQuantization |-> tableBeforeQuantization,
   quantizationSamples |-> quantizationSamples, palette |-> palette,
   faceColorIndices |-> faceColorIndices, failure |-> failure]

executingRun == 3 - otherRun.run

\* variant: one TextureCache for the module, which the resumed run finds as
\* the other run left it
cacheOfResumed_ModuleLevel(own, current) == current

\* 'const textureCache = new TextureCache()' (colorExtractor.ts line 153) is
\* a local of the call: the resumed run finds its own cache
cacheOfResumed(own, current) == own

TwoRunsInit ==
  /\ \E s1 \in TwoRunSources(1), s2 \in TwoRunSources(2), k1 \in 1..2, k2 \in 1..2 :
       /\ sources = <<s1>>
       /\ numColors = k1
       /\ otherRun = initialRun(2, s2, k2)
  /\ subdivisionLevel = "none"
  /\ pc = "sample"
  /\ originalFaceColors = <<>>
  /\ textureCache = <<>>
  /\ textureLoads = <<>>
  /\ combinedGeometry = NoGeometry
  /\ originalTriangles = 0
  /\ simplifyCalls = 0
  /\ baseGeometry = NoGeometry
  /\ baseFaceColors = <<>>
  /\ baseIsOriginal = FALSE
  /\ subdividedGeometry = NoGeometry
  /\ processedTriangles = 0
  /\ subdividedFaceColors = <<>>
  /\ tableBeforeQuantization = <<>>
  /\ quantizationSamples = <<>>
  /\ palette = <<>>
  /\ faceColorIndices = <<>>
  /\ meshes = <<>>
  /\ colorStats = <<>>
  /\ failure = "none"
  /\ exportMode = "none"
  /\ exporter = "none"
  /\ zip = NoPackage
  /\ validation = NoValidation
  /\ exportResult = NoExport

\* extractColorsFromSources has returned (meshProcessor.ts line 310); steps
\* 2-5 for a mesh within the ceiling at level 'none' keep the colour array
\* (lines 324-325, 369)
ContinueWithinLimit ==
  /\ pc = "sampled"
  /\ baseFaceColors' = originalFaceColors
  /\ baseIsOriginal' = TRUE
  /\ subdividedFaceColors' = subdivideColors(originalFaceColors, 0)
  /\ tableBeforeQuantization' = subdivideColors(originalFaceColors, 0)
  /\ pc' = "quantize"
  /\ UNCHANGED <<inputVars, sampleVars, combinedGeometry, originalTriangles, simplifyCalls,
                 baseGeometry, subdividedGeometry, processedTriangles, quantizationSamples,
                 palette, faceColorIndices, segmentVars, failure, exportVars, otherRun>>

\* the executing run is at an await and the host resumes the other run,
\* which has not finished
Yield ==
  /\ otherRun.pc \notin {"build", "failed"}
  /\ otherRun' = runLocals(executingRun)
  /\ sources' = otherRun.sources
  /\ numColors' = otherRun.numColors
  /\ pc' = otherRun.pc
  /\ originalFaceColors' = otherRun.originalFaceColors
  /\ textureCache' = cacheOfResumed(otherRun.textureCache, textureCache)
  /\ textureLoads' = otherRun.textureLoads
  /\ baseFaceColors' = otherRun.baseFaceColors
  /\ baseIsOriginal' = otherRun.baseIsOriginal
  /\ subdividedFaceColors' = otherRun.subdividedFaceColors
  /\ tableBeforeQuantization' = otherRun.tableBeforeQuantization
  /\ quantizationSamples' = otherRun.quantizationSamples
  /\ palette' = otherRun.palette
  /\ faceColorIndices' = otherRun.faceColorIndices
  /\ failure' = otherRun.failure
  /\ UNCHANGED <<subdivisionLevel, combinedGeometry, originalTriangles, simplifyCalls,
                 baseGeometry, subdividedGeometry, processedTriangles, segmentVars,
                 exportVars>>

TwoRunsNext ==
  \/ SampleFace
  \/ ImageLoads
  \/ ImageFails
  \/ SamplerReturns
  \/ ContinueWithinLimit
  \/ Quantize
  \/ Assign
  \/ Yield

SpecTwoRuns == TwoRunsInit /\ [][TwoRunsNext]_vars

(***************************************************************************)
(* Property of two interleaved runs (SpecTwoRuns).                         *)
(***************************************************************************)

\* what a run over one source produces when it is the only run and its
\* images load: the colours in face order, then palette and indices
aloneFaceColors(source) ==
  [f \in 1..Len(source.faces) |->
     faceColorOf(source, f - 1,
                 needsTexture(source, f - 1)
                   /\ materialOf(source, f - 1).map.image # "undrawable")]

\* the cache of the run holds what the run itself decoded from the textures
\* of its own source, and the finished run has the result it has alone
runIsolated(r) ==
  LET source == r.sources[1]
      alone == aloneFaceColors(source)
      samples == colorsForQuantization(alone)
      after == medianCutInputAfter(samples, r.numColors)
  IN /\ \A uuid \in DOMAIN r.textureCache :
          /\ \E i \in 1..Len(r.textureLoads) : r.textureLoads[i] = uuid
          /\ \E m \in 1..Len(source.materials) : source.materials[m].map.uuid = uuid
     /\ \A i \in 1..Len(r.originalFaceColors) :
          r.pc \in {"sample", "loading", "sampled"} => r.originalFaceColors[i] = alone[i]
     /\ r.pc = "build" =>
          /\ r.quantizationSamples = samples
          /\ r.palette = medianCut(samples, r.numColors)
          /\ r.subdividedFaceColors = after
          /\ r.faceColorIndices =
               [i \in 1..Len(after) |-> findNearestColor(after[i], r.palette)]
     /\ r.pc = "failed" =>
          \E f \in 1..Len(source.faces) :
            materialOf(source, f - 1).map.image = "incomplete"

MaxListLen == 3
MaxPaletteLen == 2
QuantizerColors == {Red, Blue, <<0, 0, 0>>}

QuantizerInit ==
  /\ sources = <<>>
  /\ subdivisionLevel = "none"
  /\ numColors \in 1..MaxListLen
  /\ pc = "call"
  /\ originalFaceColors = <<>>
  /\ textureCache = <<>>
  /\ textureLoads = <<>>
  /\ combinedGeometry = NoGeometry
  /\ originalTriangles = 0
  /\ simplifyCalls = 0
  /\ baseGeometry = NoGeometry
  /\ baseFaceColors = <<>>
  /\ baseIsOriginal = FALSE
  /\ subdividedGeometry = NoGeometry
  /\ processedTriangles = 0
  /\ subdividedFaceColors \in SeqsUpTo(QuantizerColors, MaxListLen)
  /\ tableBeforeQuantization = subdividedFaceColors
  /\ quantizationSamples = <<>>
  /\ palette \in SeqsUpTo(QuantizerColors, MaxPaletteLen)
  /\ faceColorIndices = <<>>
  /\ meshes = <<>>
  /\ colorStats = <<>>
  /\ failure = "none"
  /\ exportMode = "none"
  /\ exporter = "none"
  /\ zip = NoPackage
  /\ validation = NoValidation
  /\ exportResult = NoExport
  /\ otherRun = NoRun

\* medianCut(colors, numColors) on the list: the palette it returns, and the
\* caller's array after the call
CallMedianCut ==
  /\ pc = "call"
  /\ palette' = medianCut(subdividedFaceColors, numColors)
  /\ quantizationSamples' = subdividedFaceColors
  /\ subdividedFaceColors' = medianCutInputAfter(subdividedFaceColors, numColors)
  /\ pc' = "cut"
  /\ UNCHANGED <<inputVars, sampleVars, budgetVars, subdividedGeometry, processedTriangles,
                 tableBeforeQuantization, faceColorIndices, segmentVars, failure, exportVars>>
  /\ UNCHANGED otherRun

\* findNearestColor(color, palette) for every colour of the list
CallFindNearest ==
  /\ pc = "call"
  /\ faceColorIndices' =
       [i \in 1..Len(subdividedFaceColors) |->
          findNearestColor(subdividedFaceColors[i], palette)]
  /\ pc' = "nearest"
  /\ UNCHANGED <<inputVars, sampleVars, budgetVars, subdivideVars,
                 tableBeforeQuantization, quantizationSamples, palette, segmentVars,
                 failure, exportVars>>
  /\ UNCHANGED otherRun

SpecQuantizer == QuantizerInit /\ [][CallMedianCut \/ CallFindNearest]_vars

(***************************************************************************)
(* getRecommendedSubdivision on its own (meshProcessor.ts), with the       *)
(* ceiling of the program and triangle counts at and next to the fractions *)
(* of the ceiling.                                                         *)
(***************************************************************************)
TRIANGLE_LIMITS_MAX_PROGRAM == 500000
MaxDivisor == 70

getSubdivisionTriangleCount(currentCount, level) ==
  currentCount * Pow4(SUBDIVISION_ITERATIONS[level])

getRecommendedSubdivision(triangleCount) ==
  IF triangleCount * 64 > TRIANGLE_LIMITS_MAX_PROGRAM THEN "none"
  ELSE IF triangleCount * 16 > TRIANGLE_LIMITS_MAX_PROGRAM THEN "low"
  ELSE IF triangleCount * 4 > TRIANGLE_LIMITS_MAX_PROGRAM THEN "medium"
  ELSE "high"

RecommendInit ==
  /\ sources = <<>>
  /\ subdivisionLevel = "none"
  /\ numColors = 1
  /\ pc = "recommend"
  /\ originalFaceColors = <<>>
  /\ textureCache = <<>>
  /\ textureLoads = <<>>
  /\ combinedGeometry = NoGeometry
  /\ originalTriangles \in {0} \cup {(TRIANGLE_LIMITS_MAX_PROGRAM \div d) + e :
                                     d \in 1..MaxDivisor, e \in {0, 1}}
  /\ simplifyCalls = 0
  /\ baseGeometry = NoGeometry
  /\ baseFaceColors = <<>>
  /\ baseIsOriginal = FALSE
  /\ subdividedGeometry = NoGeometry
  /\ processedTriangles = 0
  /\ subdividedFaceColors = <<>>
  /\ tableBeforeQuantization = <<>>
  /\ quantizationSamples = <<>>
  /\ palette = <<>>
  /\ faceColorIndices = <<>>
  /\ meshes = <<>>
  /\ colorStats = <<>>
  /\ failure = "none"
  /\ exportMode = "none"
  /\ exporter = "none"
  /\ zip = NoPackage
  /\ validation = NoValidation
  /\ exportResult = NoExport
  /\ otherRun = NoRun

\* the host asks for the level to propose for a mesh of originalTriangles
\* triangles
Recommend ==
  /\ pc = "recommend"
  /\ subdivisionLevel' = getRecommendedSubdivision(originalTriangles)
  /\ pc' = "recommended"
  /\ UNCHANGED <<sources, numColors, sampleVars, budgetVars, subdivideVars, quantizeVars,
                 segmentVars, failure, exportVars>>
  /\ UNCHANGED otherRun

SpecRecommend == RecommendInit /\ [][Recommend]_vars

(***************************************************************************)
(* validate3MFStructure on its own: the validator applied to packages of   *)
(* any shape, not only to the ones export3MF builds.                       *)
(***************************************************************************)
Absent == [absent |-> TRUE]

otherTarget == "/3D/Objects/other.model"

\* the package entry a relationship Target names
TargetEntry ==
  [t \in {objectTarget, otherTarget, "/3D/3dmodel.model"} |->
     IF t = objectTarget THEN objectPath
     ELSE IF t = otherTarget THEN "3D/Objects/other.model"
     ELSE wrapperPath]

PaintedTriangle == [v1 |-> 0, v2 |-> 1, v3 |-> 2, paint_color |-> <<"4">>]
PlainTriangle == [v1 |-> 0, v2 |-> 1, v3 |-> 2, paint_color |-> <<>>]
MeshObject(triangles) ==
  [id |-> 1, colorIndex |-> -1, vertices |-> InputTriangle(0), triangles |-> triangles]

WrapperChoices ==
  {Absent, EmptyDoc}
    \cup {Doc(TRUE, {}, comps, objs, items) :
            comps \in {{}, {objectTarget}, {otherTarget}},
            objs \in {<<>>, <<MeshObject(<<PaintedTriangle>>)>>},
            items \in {<<>>, <<1>>}}

RelsChoices ==
  {Absent, EmptyDoc}
    \cup {Doc(TRUE, targets, {}, <<>>, <<>>) :
            targets \in {{objectTarget}, {otherTarget}, {objectTarget, otherTarget}}}

ObjectChoices ==
  {Absent, EmptyDoc}
    \cup {Doc(TRUE, {}, {}, objs, items) :
            objs \in {<<>>, <<MeshObject(<<>>)>>, <<MeshObject(<<PaintedTriangle>>)>>,
                      <<MeshObject(<<PlainTriangle>>)>>,
                      <<MeshObject(<<PaintedTriangle, PlainTriangle>>)>>},
            items \in {<<>>, <<1>>}}

PackageFrom(wrapper, rels, object) ==
  LET paths == (IF wrapper = Absent THEN {} ELSE {wrapperPath})
                 \cup (IF rels = Absent THEN {} ELSE {relsPath})
                 \cup (IF object = Absent THEN {} ELSE {objectPath})
                 \cup {"[Content_Types].xml", "_rels/.rels"}
      content(path) ==
        IF path = wrapperPath THEN wrapper
        ELSE IF path = relsPath THEN rels
        ELSE IF path = objectPath THEN object
        ELSE IF path = "_rels/.rels" THEN Doc(TRUE, {"/3D/3dmodel.model"}, {}, <<>>, <<>>)
        ELSE TextDoc
  IN [path \in paths |-> content(path)]

ValidatorInit ==
  /\ sources = <<>>
  /\ subdivisionLevel = "none"
  /\ numColors = 1
  /\ pc = "validate"
  /\ originalFaceColors = <<>>
  /\ textureCache = <<>>
  /\ textureLoads = <<>>
  /\ combinedGeometry = NoGeometry
  /\ originalTriangles = 0
  /\ simplifyCalls = 0
  /\ baseGeometry = NoGeometry
  /\ baseFaceColors = <<>>
  /\ baseIsOriginal = FALSE
  /\ subdividedGeometry = NoGeometry
  /\ processedTriangles = 0
  /\ subdividedFaceColors = <<>>
  /\ tableBeforeQuantization = <<>>
  /\ quantizationSamples = <<>>
  /\ palette = <<>>
  /\ faceColorIndices = <<>>
  /\ meshes = <<>>
  /\ colorStats = <<>>
  /\ failure = "none"
  /\ exportMode = "none"
  /\ exporter = "none"
  /\ \E w \in WrapperChoices, r \in RelsChoices, o \in ObjectChoices :
       zip = PackageFrom(w, r, o)
  /\ validation = NoValidation
  /\ exportResult = NoExport
  /\ otherRun = NoRun

\* the validator runs on the package
ValidatePackage ==
  /\ pc = "validate"
  /\ validation' = validate3MFStructure(zip)
  /\ pc' = "validated"
  /\ UNCHANGED <<inputVars, sampleVars, budgetVars, subdivideVars, quantizeVars,
                 segmentVars, failure, exportMode, exporter, zip, exportResult>>
  /\ UNCHANGED otherRun

SpecValidator == ValidatorInit /\ [][ValidatePackage]_vars

(***************************************************************************)
(* Properties of a conversion run (Spec).                                  *)
(***************************************************************************)

\* C1: in every run, the palette index assigned to triangle i is the index
\* of the palette colour nearest to the colour the table held for triangle i
\* before quantization started.
C1_IndexOfColourHeldBeforeQuantization ==
  pc \in {"build", "done", "exported"} =>
    /\ Len(faceColorIndices) = Len(tableBeforeQuantization)
    /\ \A i \in 1..Len(tableBeforeQuantization) :
         faceColorIndices[i] = findNearestColor(tableBeforeQuantization[i], palette)

\* C2: whenever the validator returned at least one error, export ended in
\* one failure whose message holds every error string of the validator, and
\* no package was handed to the caller.
C2_ExportFailsClosed ==
  (pc = "exported" /\ validation.ran /\ (~validation.valid \/ Len(validation.errors) > 0)) =>
    /\ exportResult.outcome = "thrown"
    /\ \A e \in 1..Len(validation.errors) :
         \E k \in 1..Len(exportResult.message) : exportResult.message[k] = validation.errors[e]
    /\ exportResult.blob = NoPackage

C2_Witness ==
  /\ pc = "exported"
  /\ exporter = "validating"
  /\ processedTriangles > 0
  /\ validation.ran
  /\ ~validation.valid
  /\ exportResult.outcome = "thrown"

\* C3: the triangle lists of the colour groups are pairwise disjoint, their
\* union is every triangle 0..n-1, and the colour of each group is the
\* palette entry at the group's palette index; for the per-colour meshes of
\* the run and for groupTrianglesByColor alike.
C3_GroupsPartitionTriangles ==
  pc \in {"done", "exported"} =>
    LET groups == groupTrianglesByColor(faceColorIndices, palette)
        Members(list) == {list[k] : k \in 1..Len(list)}
    IN /\ \A g \in 1..Len(meshes) :
            /\ Cardinality(Members(meshes[g].faceIndices)) = Len(meshes[g].faceIndices)
            /\ meshes[g].colorIndex \in 0..(Len(palette) - 1)
            /\ meshes[g].color = palette[meshes[g].colorIndex + 1]
            /\ \A h \in 1..Len(meshes) :
                 g # h => Members(meshes[g].faceIndices) \cap Members(meshes[h].faceIndices) = {}
       /\ UNION {Members(meshes[g].faceIndices) : g \in 1..Len(meshes)}
            = 0..(processedTriangles - 1)
       /\ \A g \in 1..Len(groups) :
            /\ Cardinality(Members(groups[g].triangleIndices)) = Len(groups[g].triangleIndices)
            /\ groups[g].colorIndex \in 0..(Len(palette) - 1)
            /\ groups[g].color = palette[groups[g].colorIndex + 1]
            /\ \A h \in 1..Len(groups) :
                 g # h => Members(groups[g].triangleIndices)
                            \cap Members(groups[h].triangleIndices) = {}
       /\ UNION {Members(groups[g].triangleIndices) : g \in 1..Len(groups)}
            = 0..(Len(faceColorIndices) - 1)

C3_Witness ==
  /\ pc = "done"
  /\ processedTriangles >= 3
  /\ Len(meshes) = 2
  /\ Len(groupTrianglesByColor(faceColorIndices, palette)) = 2

\* C4: the colour groups, the per-colour meshes and the per-colour objects
\* of the package come ordered by strictly ascending palette index.
C4_GroupsAscendingByPaletteIndex ==
  pc \in {"done", "exported"} =>
    LET groups == groupTrianglesByColor(faceColorIndices, palette)
        objects == buildModelWithMultiVolume(subdividedGeometry, faceColorIndices).objects
    IN /\ \A g \in 1..(Len(groups) - 1) : groups[g].colorIndex < groups[g + 1].colorIndex
       /\ \A g \in 1..(Len(meshes) - 1) : meshes[g].colorIndex < meshes[g + 1].colorIndex
       /\ \A g \in 1..(Len(objects) - 1) : objects[g].colorIndex < objects[g + 1].colorIndex

\* C5: a combined mesh over the ceiling makes the run call the decimation
\* collaborator exactly once; a failed call ends the run in failure with no
\* result, and the run never goes on with the unsimplified mesh.
C5_SimplifyOnceOrFail ==
  /\ simplifyCalls <= 1
  /\ (pc \notin {"extract", "combine"} /\ originalTriangles > TRIANGLE_LIMITS_MAX)
       => simplifyCalls = 1
  /\ (pc \in {"subdivide", "quantize", "assign", "build", "done", "exported"}
        /\ originalTriangles > TRIANGLE_LIMITS_MAX)
       => /\ baseGeometry # combinedGeometry
          /\ baseGeometry.hasIndex
          /\ failure = "none"
  /\ (failure # "none") <=> (pc = "failed")
  /\ pc = "failed" =>
       /\ simplifyCalls = 1
       /\ subdividedGeometry = NoGeometry
       /\ palette = <<>>
       /\ faceColorIndices = <<>>
       /\ meshes = <<>>
       /\ exportResult = NoExport

C5_Witness ==
  /\ pc = "failed"
  /\ failure = "engine not ready"
  /\ simplifyCalls = 1
  /\ originalTriangles > TRIANGLE_LIMITS_MAX

\* C6: a run whose input has no position buffer, or no triangle, ends in a
\* failure: processing does not complete and export returns no package.
C6_EmptyInputFails ==
  (pc \notin {"extract", "combine"} /\ originalTriangles = 0) =>
    /\ pc \notin {"done", "exported"}
    /\ exportResult.outcome # "returned"

\* C7: subdivision at level L turns n triangles into n * 4^L triangles and a
\* table of n entries into one of n * 4^L entries, and entry j is the colour
\* of the original triangle from which sub-triangle j was cut.
C7_SubdivisionKeepsColours ==
  pc = "quantize" =>
    LET n == getTriangleCount(baseGeometry)
        f == Pow4(iterations)
        corner(g, t, v) == IF g.hasIndex THEN g.position[g.index[3 * t + v] + 1]
                           ELSE g.position[3 * t + v]
    IN /\ processedTriangles = n * f
       /\ getTriangleCount(subdividedGeometry) = n * f
       /\ Len(subdividedFaceColors) = Len(baseFaceColors) * f
       /\ \A j \in 0..(Len(subdividedFaceColors) - 1) :
            subdividedFaceColors[j + 1] = baseFaceColors[(j \div f) + 1]
       /\ \A j \in 0..(n * f - 1) : \A v \in 1..3 :
            VertexOrigin(corner(subdividedGeometry, j, v))
              = VertexOrigin(corner(baseGeometry, j \div f, 1))

C7_Witness ==
  /\ pc = "quantize"
  /\ iterations >= 1
  /\ getTriangleCount(baseGeometry) >= 2
  /\ Len(baseFaceColors) = getTriangleCount(baseGeometry)
  /\ baseFaceColors[1] # baseFaceColors[2]

C9_WithinCeilingAfterBudget ==
  pc \in {"quantize", "assign", "build", "done", "exported"} =>
    /\ processedTriangles <= TRIANGLE_LIMITS_MAX
    /\ getTriangleCount(subdividedGeometry) <= TRIANGLE_LIMITS_MAX

\* C12: in every export that returns a package, the model document holds a
\* basematerials block with exactly as many entries as the palette, and
\* entry i holds the six hex digits of palette colour i.
C12_BasematerialsMirrorPalette ==
  (pc = "exported" /\ exportResult.outcome = "returned") =>
    LET path == IF exporter = "validating" THEN objectPath ELSE wrapperPath
        block == exportResult.blob[path].basematerials
    IN /\ Len(block) = Len(palette)
       /\ \A i \in 1..Len(palette) :
            SubSeq(block[i].displaycolor, 2, 7) = SubSeq(rgbToHex(palette[i]), 2, 7)

\* C11: in per-object mode a mesh whose triangles use g >= 1 distinct
\* palette indices is exported with a passed validation, and the model of
\* the returned package holds exactly g mesh objects.
C11_PerObjectExportValidates ==
  (/\ pc = "exported"
   /\ exporter = "validating"
   /\ exportMode = "multi_volume"
   /\ processedTriangles >= 1) =>
    /\ validation.ran
    /\ validation.valid
    /\ exportResult.outcome = "returned"
    /\ Len(exportResult.blob[objectPath].objects)
         = Cardinality({faceColorIndices[i] : i \in 1..Len(faceColorIndices)})

\* C24: the list handed to medianCut has at most MAX_QUANTIZATION_SAMPLES
\* entries: a table of n entries above the cap is handed over as its entries
\* at indices 0, s, 2s, ... with s = floor(n / cap), and a table within the
\* cap is handed over whole.
C24_SamplesWithinCap ==
  pc \in {"assign", "build", "done", "exported"} =>
    LET n == Len(tableBeforeQuantization)
        s == n \div MAX_QUANTIZATION_SAMPLES
    IN /\ Len(quantizationSamples) <= MAX_QUANTIZATION_SAMPLES
       /\ n <= MAX_QUANTIZATION_SAMPLES => quantizationSamples = tableBeforeQuantization
       /\ n > MAX_QUANTIZATION_SAMPLES =>
            /\ Len(quantizationSamples) = MAX_QUANTIZATION_SAMPLES
            /\ \A j \in 0..(Len(quantizationSamples) - 1) :
                 quantizationSamples[j + 1] = tableBeforeQuantization[(j * s) + 1]

\* a table above the cap, sampled with a stride of two
C24_Witness ==
  /\ pc = "assign"
  /\ Len(tableBeforeQuantization) >= 2 * MAX_QUANTIZATION_SAMPLES
  /\ Len(quantizationSamples) = MAX_QUANTIZATION_SAMPLES
  /\ quantizationSamples[2] # tableBeforeQuantization[2]

\* C28: the three positions a colour group holds for triangle t are the
\* positions of the three vertices of triangle t of the processed mesh, read
\* through its index list when it has one and as consecutive vertices
\* when it has none.
C28_GroupPositionsAreTriangleVertices ==
  pc \in {"done", "exported"} =>
    \A g \in 1..Len(meshes) :
      \A k \in 1..Len(meshes[g].faceIndices) :
        \A v \in 0..2 :
          LET t == meshes[g].faceIndices[k]
              vertIdx == IF subdividedGeometry.hasIndex
                         THEN subdividedGeometry.index[(3 * t) + v + 1]
                         ELSE (3 * t) + v
          IN meshes[g].positions[(3 * (k - 1)) + v + 1] = PositionAt(subdividedGeometry, vertIdx)

\* C29: in per-object mode, every object id of the model config document
\* is the id of an object of the model document, and the extruder the config
\* gives it is the palette index of that object's colour plus one.
C29_ConfigMatchesObjects ==
  (pc = "exported" /\ exportResult.outcome = "returned" /\ exportMode = "multi_volume"
   /\ exporter \in {"validating", "direct"}) =>
    LET model == exportResult.blob[IF exporter = "validating" THEN objectPath ELSE wrapperPath]
        config == exportResult.blob[modelConfigPath].configObjects
    IN \A c \in 1..Len(config) :
         \E o \in 1..Len(model.objects) :
           /\ model.objects[o].id = config[c].id
           /\ config[c].extruder = model.objects[o].colorIndex + 1

\* C19: in every model document of a returned package, each object has at
\* most 3 vertices per triangle and every vertex reference of a triangle is
\* smaller than the number of vertices of its object.
C19_VertexReferencesInRange ==
  (pc = "exported" /\ exportResult.outcome = "returned") =>
    \A path \in DOMAIN exportResult.blob :
      \A o \in 1..Len(exportResult.blob[path].objects) :
        LET object == exportResult.blob[path].objects[o]
        IN /\ Len(object.vertices) <= 3 * Len(object.triangles)
           /\ \A t \in 1..Len(object.triangles) :
                /\ object.triangles[t].v1 \in 0..(Len(object.vertices) - 1)
                /\ object.triangles[t].v2 \in 0..(Len(object.vertices) - 1)
                /\ object.triangles[t].v3 \in 0..(Len(object.vertices) - 1)

\* a returned document whose object shares vertices between triangles
C19_Witness ==
  /\ pc = "exported"
  /\ exportResult.outcome = "returned"
  /\ exporter = "direct"
  /\ Len(exportResult.blob[wrapperPath].objects) = 1
  /\ Len(exportResult.blob[wrapperPath].objects[1].triangles) >= 2
  /\ Len(exportResult.blob[wrapperPath].objects[1].vertices)
       < 3 * Len(exportResult.blob[wrapperPath].objects[1].triangles)

\* C20: in the colour statistics of every finished run and in the report of
\* every export, the per-colour triangle counts sum to the total triangle
\* count and the percentages count / total * 100 sum to 100.
C20_CountsSumToTotal ==
  LET SumsTo100(entries, total) ==
        /\ SumSeq([k \in 1..Len(entries) |-> entries[k].count]) = total
        /\ \A k \in 1..Len(entries) : entries[k].total = total
        /\ total > 0
  IN /\ pc \in {"done", "exported"} => SumsTo100(colorStats, processedTriangles)
     /\ (pc = "exported" /\ exportResult.outcome = "returned" /\ exporter # "meshes") =>
          SumsTo100(exportResult.report.colorDistribution, exportResult.report.totalTriangles)

(***************************************************************************)
(* Property of the validator (SpecValidator).                              *)
(***************************************************************************)

\* C10: the validator reports valid = false for every package whose entry
\* model document is missing, is empty, holds no triangle or holds no build
\* item, and for every package in which a relationship target is not an
\* entry of the package.
C10_ValidatorRejectsDefects ==
  pc = "validated" =>
    LET has(path) == path \in DOMAIN zip
        entry == zip[wrapperPath]
        HasTriangle(doc) == \E o \in 1..Len(doc.objects) : Len(doc.objects[o].triangles) > 0
        entryHasTriangle ==
          \/ HasTriangle(entry)
          \/ \E c \in entry.components :
               has(TargetEntry[c]) /\ HasTriangle(zip[TargetEntry[c]])
        entryDefective ==
          \/ ~has(wrapperPath)
          \/ ~entry.nonEmpty
          \/ ~entryHasTriangle
          \/ Len(entry.buildItems) = 0
        targetMissing ==
          \E rels \in {relsPath, "_rels/.rels"} :
            has(rels) /\ \E t \in zip[rels].targets : ~has(TargetEntry[t])
    IN (entryDefective \/ targetMissing) => ~validation.valid

\* C13: a package whose object document holds at least one triangle with
\* the paint_color attribute and at least one triangle without it is
\* reported invalid by the validator.
C13_PartialTaggingRejected ==
  (pc = "validated" /\ objectPath \in DOMAIN zip) =>
    LET doc == zip[objectPath]
        tagged == \E o \in 1..Len(doc.objects) : \E t \in 1..Len(doc.objects[o].triangles) :
                    doc.objects[o].triangles[t].paint_color # <<>>
        untagged == \E o \in 1..Len(doc.objects) : \E t \in 1..Len(doc.objects[o].triangles) :
                      doc.objects[o].triangles[t].paint_color = <<>>
    IN (tagged /\ untagged) => ~validation.valid

(***************************************************************************)
(* Properties of the colour sampler (SpecSampler).                         *)
(***************************************************************************)

\* C14: sampling never aborts on a texture that fails to decode: it ends
\* with one colour per triangle, and a triangle whose texture failed to
\* decode has the base colour of its material, or the neutral gray when the
\* material has no base colour.
C14_DecodeFailureFallsBack ==
  /\ pc # "failed"
  /\ pc = "sampled" =>
       /\ Len(originalFaceColors) = Len(sources[1].faces)
       /\ \A f \in 1..Len(sources[1].faces) :
            LET material == materialOf(sources[1], f - 1)
            IN (needsTexture(sources[1], f - 1) /\ material.map.image = "undrawable") =>
                 originalFaceColors[f] =
                   IF material.color # UndefinedColor THEN material.color ELSE NeutralGray

\* C15: every sampled colour comes from the first applicable source among
\* vertex colours (mean of the three), texture times base colour, base
\* colour of the material, neutral gray.
C15_FirstApplicableSource ==
  pc = "sampled" =>
    \A f \in 1..Len(sources[1].faces) :
      LET source == sources[1]
          index == source.faces[f]
          hasMaterial == Len(source.materials) > 0
          material == IF index < Len(source.materials) THEN source.materials[index + 1]
                      ELSE source.materials[1]
          hasBase == hasMaterial /\ material.color # UndefinedColor
          textured == /\ hasMaterial /\ material.map # NoMap /\ source.hasUV
                      /\ material.map.image # "undrawable"
      IN IF source.hasColor
         THEN originalFaceColors[f] = vertexColorMean(VertexTriple)
         ELSE IF textured
         THEN hasBase => originalFaceColors[f] = multiplyColors(material.map.texel, material.color)
         ELSE IF hasBase
         THEN originalFaceColors[f] = material.color
         ELSE originalFaceColors[f] = NeutralGray

\* C15 as amended: the base colour of a material without a colour of its
\* own is the light gray (200, 200, 200), in the texture product too, and
\* the neutral gray (180, 180, 180) is used only when the source has no
\* material.
C15_FirstApplicableSourceWithDefaultBase ==
  pc = "sampled" =>
    \A f \in 1..Len(sources[1].faces) :
      LET source == sources[1]
          index == source.faces[f]
          hasMaterial == Len(source.materials) > 0
          material == IF index < Len(source.materials) THEN source.materials[index + 1]
                      ELSE source.materials[1]
          base == IF material.color # UndefinedColor THEN material.color
                  ELSE <<200, 200, 200>>
          textured == /\ hasMaterial /\ material.map # NoMap /\ source.hasUV
                      /\ material.map.image # "undrawable"
      IN originalFaceColors[f] =
           IF source.hasColor THEN vertexColorMean(VertexTriple)
           ELSE IF textured THEN multiplyColors(material.map.texel, base)
           ELSE IF hasMaterial THEN base
           ELSE NeutralGray

\* a finished sampling with a textured face next to a face of a material
\* without texture and without colour
C15_Witness ==
  /\ pc = "sampled"
  /\ ~sources[1].hasColor
  /\ sources[1].hasUV
  /\ Len(sources[1].faces) = 2
  /\ needsTexture(sources[1], 0)
  /\ materialOf(sources[1], 0).map.image = "incomplete"
  /\ materialOf(sources[1], 1).map = NoMap
  /\ materialOf(sources[1], 1).color = UndefinedColor
  /\ originalFaceColors[2] = <<200, 200, 200>>

\* C25: within one sampling, loadTextureData is called at most once for
\* each texture uuid, whether its decode gave an image or null, and every
\* later face with that texture is answered from the cache.
C25_DecodedAtMostOnce ==
  /\ \A i, j \in 1..Len(textureLoads) : textureLoads[i] = textureLoads[j] => i = j
  /\ pc = "sample" => \A u \in 1..3 :
       (\E i \in 1..Len(textureLoads) : textureLoads[i] = u) => u \in DOMAIN textureCache

\* two faces with the same texture, whose decode failed, and one load
C25_Witness ==
  /\ pc = "sampled"
  /\ Len(sources[1].faces) = 2
  /\ needsTexture(sources[1], 0)
  /\ needsTexture(sources[1], 1)
  /\ materialOf(sources[1], 0).map.image = "undrawable"
  /\ materialOf(sources[1], 1).map.image = "undrawable"
  /\ textureLoads = <<3>>

(***************************************************************************)
(* Properties of the quantizer functions (SpecQuantizer).                  *)
(***************************************************************************)

\* C16: for a non-empty palette, findNearestColor returns the smallest index
\* whose entry is at a squared distance from the colour not greater than the
\* distance of any other entry.
C16_NearestIsLowestMinimum ==
  (pc = "nearest" /\ Len(palette) > 0) =>
    \A i \in 1..Len(tableBeforeQuantization) :
      LET color == tableBeforeQuantization[i]
          minimal(k) == \A j \in 1..Len(palette) :
                          SqDist(color, palette[k]) <= SqDist(color, palette[j])
          idx == faceColorIndices[i]
      IN /\ idx \in 0..(Len(palette) - 1)
         /\ minimal(idx + 1)
         /\ \A k \in 1..idx : ~minimal(k)

\* a colour with two nearest entries, answered with the first
C16_Witness ==
  /\ pc = "nearest"
  /\ Len(palette) = 2
  /\ Len(tableBeforeQuantization) > 0
  /\ SqDist(tableBeforeQuantization[1], palette[1]) = SqDist(tableBeforeQuantization[1], palette[2])
  /\ faceColorIndices[1] = 0

\* C17: for a non-empty list and K >= 1, medianCut returns between 1 and K
\* colours.
C17_PaletteSizeWithinK ==
  (pc = "cut" /\ Len(tableBeforeQuantization) > 0) =>
    (Len(palette) >= 1 /\ Len(palette) <= numColors)

\* a call that had enough distinct colours to fill the palette
C17_Witness ==
  /\ pc = "cut"
  /\ numColors = 2
  /\ Len(tableBeforeQuantization) = 3
  /\ Len(palette) = 2

\* C18: for every palette P of distinct colours and every list made of the
\* entries of P, each at least once in any order, medianCut(list, |P|)
\* returns P, entry by entry.
C18_QuantizeOfPaletteIsPalette ==
  pc = "cut" =>
    \A P \in SeqsUpTo(QuantizerColors, MaxListLen) :
      (/\ Len(P) = numColors
       /\ \A i, j \in 1..Len(P) : P[i] = P[j] => i = j
       /\ {tableBeforeQuantization[i] : i \in 1..Len(tableBeforeQuantization)}
            = {P[i] : i \in 1..Len(P)})
        => palette = P

\* C18 as amended: for a list of K pairwise distinct colours, medianCut
\* returns exactly the colours of the list, each once, in the order its
\* splits leave them.
C18_QuantizeOfDistinctKeepsColours ==
  (/\ pc = "cut"
   /\ Len(tableBeforeQuantization) = numColors
   /\ \A i, j \in 1..Len(tableBeforeQuantization) :
        tableBeforeQuantization[i] = tableBeforeQuantization[j] => i = j) =>
    /\ Len(palette) = numColors
    /\ {palette[i] : i \in 1..Len(palette)}
         = {tableBeforeQuantization[i] : i \in 1..Len(tableBeforeQuantization)}

\* three distinct colours quantized to three, returned in another order
C18_Witness ==
  /\ pc = "cut"
  /\ numColors = 3
  /\ tableBeforeQuantization = <<Red, Blue, <<0, 0, 0>>>>
  /\ Len(palette) = 3
  /\ palette # tableBeforeQuantization

\* C23: a split orders the bucket along its widest channel and cuts it at
\* the midpoint, the lower half taking the extra element of an odd count.
\* Seen on the one split of a call with K = 2: the caller's array is left in
\* split order and the palette is the averages of the two halves.
C23_LowerHalfTakesExtra ==
  (pc = "cut" /\ numColors = 2 /\ Len(palette) = 2) =>
    LET sorted == subdividedFaceColors
        n == Len(sorted)
        ch == getColorRange(tableBeforeQuantization).channel
        lower == (n + 1) \div 2
    IN /\ \A i \in 1..(n - 1) : Chan(sorted[i], ch) <= Chan(sorted[i + 1], ch)
       /\ palette = <<averageColor(SubSeq(sorted, 1, lower)),
                      averageColor(SubSeq(sorted, lower + 1, n))>>

\* C23 as amended: the cut is at floor(n / 2), so the upper half takes the
\* extra element of an odd count.
C23_UpperHalfTakesExtra ==
  (pc = "cut" /\ numColors = 2 /\ Len(palette) = 2) =>
    LET sorted == subdividedFaceColors
        n == Len(sorted)
        ch == getColorRange(tableBeforeQuantization).channel
        lower == n \div 2
    IN /\ \A i \in 1..(n - 1) : Chan(sorted[i], ch) <= Chan(sorted[i + 1], ch)
       /\ palette = <<averageColor(SubSeq(sorted, 1, lower)),
                      averageColor(SubSeq(sorted, lower + 1, n))>>

\* three colours cut into one and two
C23_Witness ==
  /\ pc = "cut"
  /\ numColors = 2
  /\ tableBeforeQuantization = <<Red, <<0, 0, 0>>, Red>>
  /\ palette = <<<<0, 0, 0>>, Red>>

\* C26: medianCut leaves the caller's list as it was: the same elements in
\* the same order.
C26_InputUnchanged ==
  pc = "cut" => subdividedFaceColors = tableBeforeQuantization

\* C27: for K >= 2, medianCut returns exactly K colours when the list holds
\* at least K distinct colours, and fewer than K only when it holds fewer
\* than K distinct colours.
C27_ExactlyKWhenEnoughColours ==
  (pc = "cut" /\ numColors >= 2) =>
    LET distinct == Cardinality({tableBeforeQuantization[i] :
                                   i \in 1..Len(tableBeforeQuantization)})
    IN /\ distinct >= numColors => Len(palette) = numColors
       /\ Len(palette) < numColors => distinct < numColors

\* three distinct colours for K = 3, split twice
C27_Witness ==
  /\ pc = "cut"
  /\ numColors = 3
  /\ Cardinality({tableBeforeQuantization[i] : i \in 1..Len(tableBeforeQuantization)}) = 3
  /\ Len(palette) = 3

(***************************************************************************)
(* Property of getRecommendedSubdivision (SpecRecommend).                  *)
(***************************************************************************)

\* C30: the level recommended for n triangles is the highest level whose
\* subdivided count n * 4^L is within the ceiling, and 'none' when not even
\* one level is.
C30_HighestLevelWithinCeiling ==
  pc = "recommended" =>
    LET fits(level) ==
          getSubdivisionTriangleCount(originalTriangles, level) <= TRIANGLE_LIMITS_MAX_PROGRAM
    IN subdivisionLevel =
         IF fits("high") THEN "high"
         ELSE IF fits("medium") THEN "medium"
         ELSE IF fits("low") THEN "low"
         ELSE "none"

(***************************************************************************)
(* Property of a repeated export (SpecTwoExports).                         *)
(***************************************************************************)

\* C22: two runs with the same inputs and the same answer of the simplifier
\* hand back the same outputs: the same package, entry by entry, and the
\* same report.
C22_SameInputsSameOutputs ==
  (pc = "exported" /\ otherRun # NoRun) => exportResult = otherRun.exportResult

====
